---- MODULE Spec2Model ----
(***************************************************************************)
(* Athena context engine: the chat turn (api/chat.py), the history manager *)
(* and the message-append operation (core/context.py), as a state machine  *)
(* over one conversation of the relational store.  Every `await` of the    *)
(* code is a scheduling point of the event loop, so every store statement  *)
(* and every provider call is one action; the code between two awaits is   *)
(* part of the action that follows it.                                     *)
(***************************************************************************)
EXTENDS Integers, Sequences, FiniteSets, TLC

(* ------------------------------ bounds --------------------------------- *)

\* requests received over one behaviour
MaxRequests == 3

\* the workers serving chat turns: two, so that two turns on the conversation
\* overlap
Turns == {1, 2}

(* --------------------------- program constants -------------------------- *)

TOTAL_BUDGET == 8192
SYSTEM_BUDGET == 1000
GENERATION_BUDGET == 1192
PROTECT_LAST_N == 6
MESSAGE_FLOOR == 500
\* a bug: the limit without its floor
MAX_MESSAGE_TOKENS_NoFloor == TOTAL_BUDGET - SYSTEM_BUDGET - GENERATION_BUDGET
MAX_MESSAGE_TOKENS == TOTAL_BUDGET - SYSTEM_BUDGET - GENERATION_BUDGET - MESSAGE_FLOOR
\* count_tokens: tokens charged per message for role and formatting
PER_MESSAGE_OVERHEAD == 4

(* ------------------------------ contents -------------------------------- *)

\* A content is a text; `of` lists the ids of the messages a summary was made
\* from (empty for every other text), `prefixed` marks the synthetic
\* "[Earlier in this conversation]: " message built around a summary.
Text(s) == [text |-> s, of |-> <<>>, prefixed |-> FALSE]

UserContents ==
    {Text("hi there now"), Text("max message"), Text("oversize message")}
AsstContents == {Text("hi there now")}

TIMEOUT_PLACEHOLDER ==
    Text("Earlier conversation content unavailable (summarization timed out).")
ERROR_PLACEHOLDER == Text("Earlier conversation content unavailable.")
BASE_PROMPT == Text("You are Athena, a personal AI assistant.")
\* f"{base}\n\n{rag_context}"
RAG_PROMPT == Text("You are Athena, a personal AI assistant. + rag context")

\* the NULL of the summary column, None in the program
NoSummary == Text("")
\* str(None), what an f-string makes of None
NONE_STR == Text("None")

\* len(enc.encode(text)) of the texts above (the tokenizer is a library; these
\* are its outputs on the texts of the model)
TextTokens(s) ==
    CASE s = "" -> 0
      [] s = "hi there now" -> 3
      [] s = "long message" -> 2400
      [] s = "max message" -> 5500
      [] s = "oversize message" -> 5501
      [] s = "summary" -> 150
      [] s = "Earlier conversation content unavailable (summarization timed out)." -> 12
      [] s = "Earlier conversation content unavailable." -> 6
      [] s = "You are Athena, a personal AI assistant." -> 40
      [] s = "You are Athena, a personal AI assistant. + rag context" -> 642
      [] OTHER -> 1

count_tokens_text(c) == TextTokens(c.text) + (IF c.prefixed THEN 8 ELSE 0)

RECURSIVE count_tokens(_)
count_tokens(msgs) ==
    IF msgs = <<>> THEN 0
    ELSE count_tokens_text(Head(msgs).content) + PER_MESSAGE_OVERHEAD
         + count_tokens(Tail(msgs))

(* ------------------------------- state ---------------------------------- *)

VARIABLES
    \* relational store: the conversation row and its message rows
    conv_exists,          \* the conversations row exists
    title,                \* conversations.title
    token_count,          \* conversations.token_count
    message_count,        \* conversations.message_count
    summary,              \* conversations.summary (NoSummary = NULL)
    summarized_up_to_id,  \* conversations.summarized_up_to_id (0 = NULL)
    messages,             \* the messages rows in timestamp order
    \* turn[t]: the chat turn (request) worker t is serving, a record of
    \*   pc                where the turn's coroutine is suspended
    \*   message           body.message
    \*   rag_tokens        count_tokens_text(rag_context), 0 without context
    \*   conv              get_managed_history: the row read at line 105
    \*   all_messages      _generate_and_cache_summary: the rows read at 171
    \*   history           get_managed_history's first result
    \*   will_summarize    get_managed_history's second result
    \*   complete_response stream_response: the joined model output
    \*   calls             provider calls made for the context of the turn
    \*   summarizer        how each request of summarize_messages ended
    \*   stream_open       the StreamingResponse has been returned
    \* A local is set back to its initial value where the code stops using it.
    turn,
    requests,             \* requests received so far
    \* knowledge stores
    documents,            \* documents rows: document_id -> user_id, status,
                          \*   and what the matcher makes of the filename
    chunks,               \* document_chunks rows: chunk_id -> document_id
    points,               \* dense collection: the payloads, nearest first
    bm25_indexes,         \* bm25_indexes rows: document_id -> entries
    bm25_cache,           \* _bm25_cache: document_id -> entries, in memory
    \* retrieval: the rag.retrieve call in progress, a record of
    \*   pc            where the coroutine is suspended
    \*   user_id, document_ids, search_all, top_k   its arguments
    \*   search_ids    the documents both searches are restricted to
    \*   dense, sparse the state of each branch of the gather
    \*   vector_hits, bm25_hits, ranked_ids         its locals
    \*   result        the list returned
    \*   calls         the calls made to providers and stores, in order
    \*   failed        the calls that raised
    \*   loaded        _bm_25_search: the index got for each document so far
    \*   row           get_bm25_index: the row read on a cache miss
    retrieval,
    \* ingest: the _process_document task of an upload, a record of
    \*   pc            where the coroutine is suspended
    \*   document_id, user_id   its arguments
    \*   done          the chunks embedded and stored so far
    ingest,
    progress,             \* _progress: document_id -> stage, done, total
    \* deletion: the delete_document request in progress, a record of
    \*   pc            where the handler is suspended
    \*   document_id, user_id   its arguments
    deletion,
    \* progress_response: the get_document_progress request, a record of
    \*   pc            where the handler is suspended
    \*   body          what it answered
    progress_response,
    \* call: a function applied to arguments, a record of
    \*   op            the function
    \*   input         its arguments
    \*   returned, out whether it has returned, and what
    call

storeVars ==
    <<conv_exists, title, token_count, message_count, summary,
      summarized_up_to_id, messages>>
chatVars == <<storeVars, turn, requests>>
knowledgeVars == <<documents, chunks, points, bm25_indexes, bm25_cache>>
documentVars == <<progress, deletion, progress_response>>
ragVars == <<knowledgeVars, retrieval, ingest, call, documentVars>>
vars == <<chatVars, ragVars>>

(* ------------------------------ helpers --------------------------------- *)

Max(a, b) == IF a >= b THEN a ELSE b

\* the (role, content) dict the history manager builds from a row
RoleContent(m) == [role |-> m.role, content |-> m.content]
RoleContents(rows) == [i \in 1..Len(rows) |-> RoleContent(rows[i])]

\* rows[a:b] of Python: the elements at 0-based positions a..b-1
Slice(rows, a, b) == SubSeq(rows, a + 1, b)

\* a bug: id >= $2, the last summarized row returned again
RowsAfter_Inclusive(rows, id) == SelectSeq(rows, LAMBDA m : m.id >= id)

RECURSIVE RowsAfter(_, _)
\* SELECT ... WHERE id > $2 ORDER BY timestamp ASC
RowsAfter(rows, id) ==
    IF rows = <<>> THEN <<>>
    ELSE IF Head(rows).id > id
         THEN <<Head(rows)>> \o RowsAfter(Tail(rows), id)
         ELSE RowsAfter(Tail(rows), id)

\* f"[Earlier in this conversation]: {summary}" as a system message
SummaryMessage(s) ==
    [role |-> "system",
     content |-> [(IF s = NoSummary THEN NONE_STR ELSE s) EXCEPT !.prefixed = TRUE]]

\* the row INSERT INTO messages adds: the next serial id, the latest timestamp
NewRow(rows, role, content) ==
    [id |-> Len(rows) + 1, role |-> role, content |-> content]

\* a bug: the RAG block left out of the budget
HistoryBudgetOf_NoRag(m, rag) ==
    TOTAL_BUDGET - SYSTEM_BUDGET - GENERATION_BUDGET - count_tokens_text(m)

HistoryBudgetOf(m, rag) ==
    TOTAL_BUDGET - SYSTEM_BUDGET - GENERATION_BUDGET - count_tokens_text(m) - rag

\* count_tokens(recent) > history_budget * 0.8, in tenths
RecentOverflows(recent, budget) == 10 * count_tokens(recent) > 8 * budget

\* a bug: all_messages[:PROTECT_LAST_N], the first rows taken as trimmable
Trimmable_Head(all) ==
    Slice(all, 0, IF Len(all) < PROTECT_LAST_N THEN Len(all) ELSE PROTECT_LAST_N)

\* a bug: the midpoint without its minimum of 1
Midpoint_Half(all) ==
    Len(Slice(all, 0, Max(0, Len(all) - PROTECT_LAST_N))) \div 2

\* _generate_and_cache_summary's split of the rows it read
Protected(all) == Slice(all, Max(0, Len(all) - PROTECT_LAST_N), Len(all))
Trimmable(all) == Slice(all, 0, Max(0, Len(all) - PROTECT_LAST_N))
Midpoint(all) == Max(1, Len(Trimmable(all)) \div 2)
ToSummarize(all) == Slice(Trimmable(all), 0, Midpoint(all))
Remaining(all) == Slice(Trimmable(all), Midpoint(all), Len(Trimmable(all)))
\* a bug: the id of the last trimmable row, not of the last summarized one
LastSummarizedId_Trimmable(all) == Trimmable(all)[Len(Trimmable(all))].id
LastSummarizedId(all) == ToSummarize(all)[Len(ToSummarize(all))].id

\* what the completion provider returns for a span of messages
SummaryOf(rows) ==
    [text |-> "summary", of |-> [i \in 1..Len(rows) |-> rows[i].id],
     prefixed |-> FALSE]

\* How the one request of summarize_messages can end:
\*   ok            200, data["message"]["content"] is a text
\*   timeout       httpx.TimeoutException
\*   error         anything else that raises: another transport error,
\*                 raise_for_status on a non-2xx status, a body on which
\*                 resp.json() or the ["message"]["content"] lookup raises
\*   null_content  200, data["message"]["content"] is the JSON null
SummarizerOutcomes == {"ok", "timeout", "error", "null_content"}

\* a bug: no placeholder, a failed request gives no summary
summarize_messages_NoPlaceholder(outcome, rows) ==
    IF outcome = "ok" THEN SummaryOf(rows) ELSE NoSummary

\* summarize_messages: the value returned for the outcome of its request
summarize_messages(outcome, rows) ==
    CASE outcome = "ok" -> SummaryOf(rows)
      [] outcome = "null_content" -> NoSummary
      [] outcome = "timeout" -> TIMEOUT_PLACEHOLDER
      [] OTHER -> ERROR_PLACEHOLDER

\* a bug: the second half of the trimmable rows left out
CompressedHistory_NoRemaining(all, text) ==
    <<SummaryMessage(text)>> \o RoleContents(Protected(all))

\* the history _generate_and_cache_summary returns after caching a summary
CompressedHistory(all, text) ==
    <<SummaryMessage(text)>> \o RoleContents(Remaining(all))
        \o RoleContents(Protected(all))

\* a bug: the counter charged like count_tokens, overhead included
NewTokenCount_WithOverhead(tc, content) ==
    tc + count_tokens_text(content) + PER_MESSAGE_OVERHEAD

\* token_count = COALESCE(token_count, 0) + $1
NewTokenCount(tc, content) == tc + count_tokens_text(content)

(* ------------------------------- Init ----------------------------------- *)

NoRow == [token_count |-> 0, summary |-> NoSummary, summarized_up_to_id |-> 0]

IdleTurn ==
    [pc |-> "idle", message |-> NoSummary, rag_tokens |-> 0, conv |-> NoRow,
     all_messages |-> <<>>, history |-> <<>>, will_summarize |-> FALSE,
     complete_response |-> NoSummary, calls |-> {}, summarizer |-> <<>>,
     stream_open |-> FALSE]

\* no retrieve call yet
NoRetrieval ==
    [pc |-> "idle", user_id |-> 0, document_ids |-> <<>>, search_all |-> FALSE,
     top_k |-> 0, search_ids |-> <<>>, dense |-> "none", sparse |-> "none",
     vector_hits |-> <<>>, bm25_hits |-> <<>>, ranked_ids |-> <<>>,
     result |-> <<>>, calls |-> <<>>, failed |-> {}, loaded |-> <<>>,
     row |-> <<>>]

\* no upload being processed
NoIngest == [pc |-> "idle", document_id |-> "", user_id |-> 0, done |-> <<>>]

\* no delete_document request yet
NoDeletion == [pc |-> "idle", document_id |-> "", user_id |-> 0]

\* no get_document_progress request yet
NoResponse == [pc |-> "idle", document_id |-> "", user_id |-> 0, body |-> <<>>]

\* no function applied
NoCall == [op |-> "none", input |-> <<>>, returned |-> FALSE, out |-> <<>>]

RECURSIVE SumTokens(_)
SumTokens(rows) ==
    IF rows = <<>> THEN 0
    ELSE count_tokens_text(Head(rows).content) + SumTokens(Tail(rows))

\* rows of completed turns: user and assistant alternate
RowsOf(contents) ==
    [i \in 1..Len(contents) |->
        [id |-> i, role |-> IF i % 2 = 1 THEN "user" ELSE "assistant",
         content |-> contents[i]]]

\* Conversations left by earlier turns: none yet, or four completed turns,
\* the first with a long message.  No turn has cached a summary: the fourth
\* ran on six rows, which are all protected.
InitContents ==
    {<<>>,
     [i \in 1..8 |-> IF i = 1 THEN Text("long message") ELSE Text("hi there now")]}

Init ==
    /\ \E cs \in InitContents :
          /\ messages = RowsOf(cs)
          /\ conv_exists = (cs # <<>>)
          /\ title = IF cs = <<>> THEN "none" ELSE "set"
          /\ token_count = SumTokens(RowsOf(cs))
          /\ message_count = Len(cs)
    /\ summary = NoSummary
    /\ summarized_up_to_id = 0
    /\ turn = [t \in Turns |-> IdleTurn]
    /\ requests = 0
    /\ documents = <<>>
    /\ chunks = <<>>
    /\ points = <<>>
    /\ bm25_indexes = <<>>
    /\ bm25_cache = <<>>
    /\ retrieval = NoRetrieval
    /\ ingest = NoIngest
    /\ progress = <<>>
    /\ deletion = NoDeletion
    /\ progress_response = NoResponse
    /\ call = NoCall

(* ------------------------------ chat turn ------------------------------- *)

\* A worker is free before its first request and once its last one has
\* ended.  pc keeps the HTTP error a request was refused with ("rejected":
\* 400, "not_found": 404); a request that was admitted to the stream leaves the
\* worker "idle" however it ends (the done event, an error event, an
\* exception of the store), its locals gone.
Free == {"idle", "rejected", "not_found"}

\* POST /api/chat up to the return of the StreamingResponse: the pre-flight
\* token check, _get_or_create_conversation and the title update.  A request
\* without conversation_id creates the conversation; the model follows the
\* one conversation, so it admits such a request only while there is none.
\* The workers are interchangeable: the free one with the least number takes
\* the request.
chat(t) ==
    /\ turn[t].pc \in Free
    /\ \A u \in Turns : u < t => turn[u].pc \notin Free
    /\ requests < MaxRequests
    /\ requests' = requests + 1
    /\ \E m \in UserContents, given \in BOOLEAN :
          IF count_tokens_text(m) > MAX_MESSAGE_TOKENS
          THEN /\ turn' = [turn EXCEPT ![t] =
                             [IdleTurn EXCEPT !.pc = "rejected", !.message = m]]
               /\ UNCHANGED <<conv_exists, title>>
          ELSE IF given /\ ~conv_exists
          THEN /\ turn' = [turn EXCEPT ![t] =
                             [IdleTurn EXCEPT !.pc = "not_found", !.message = m]]
               /\ UNCHANGED <<conv_exists, title>>
          ELSE /\ given = conv_exists
               /\ conv_exists' = TRUE
               /\ title' = IF title \in {"none", "New Conversation"}
                           THEN "set" ELSE title
               /\ turn' = [turn EXCEPT ![t] =
                             [IdleTurn EXCEPT !.pc = "stream_response",
                                              !.message = m,
                                              !.stream_open = TRUE]]
    /\ UNCHANGED <<token_count, message_count, summary, summarized_up_to_id,
                   messages, ragVars>>

\* token counts of the RAG blocks format_rag_context may hand to build_messages
RagContextTokens == {600}

\* a bug: the cached summary tested before the budget
PathOf_SummaryFirst(row, budget) ==
    IF row.summary # NoSummary THEN "cached"
    ELSE IF row.token_count <= budget THEN "fast"
    ELSE "generate"

\* the branch get_managed_history takes on the row it read
PathOf(row, budget) ==
    IF row.token_count <= budget THEN "fast"
    ELSE IF row.summary # NoSummary THEN "cached"
    ELSE "generate"

history_budget(t) == HistoryBudgetOf(turn[t].message, turn[t].rag_tokens)

\* stream_response up to the conversation row read in get_managed_history.
\* Without a knowledge scope there is no retrieval; with one, rag.retrieve
\* calls the embedding provider and both searches, and format_rag_context
\* gives the RAG block.  build_messages then checks the length again and
\* get_managed_history computes the budget and reads the row.
build_messages(t) ==
    /\ turn[t].pc = "stream_response"
    /\ \E rag \in {0} \cup RagContextTokens :
          LET cl == IF rag = 0 THEN turn[t].calls
                    ELSE turn[t].calls
                            \cup {"embedding", "dense_search", "sparse_search"}
              budget == HistoryBudgetOf(turn[t].message, rag)
              row == [token_count |-> token_count, summary |-> summary,
                      summarized_up_to_id |-> summarized_up_to_id]
          IN  turn' = [turn EXCEPT ![t] =
                 IF count_tokens_text(turn[t].message) > MAX_MESSAGE_TOKENS
                 THEN IdleTurn
                 ELSE IF budget <= 0
                 THEN [@ EXCEPT !.pc = "ollama", !.rag_tokens = rag, !.calls = cl,
                                !.history = <<>>, !.will_summarize = FALSE]
                 ELSE [@ EXCEPT !.pc = PathOf(row, budget), !.rag_tokens = rag,
                                !.calls = cl, !.conv = row]]
    /\ UNCHANGED <<storeVars, requests, ragVars>>

\* build_system_prompt: the base prompt, followed by the RAG block if any
build_system_prompt(rag) == IF rag = 0 THEN BASE_PROMPT ELSE RAG_PROMPT

\* a bug: the current message placed before the history
assembled_MessageFirst(r) ==
    <<[role |-> "system", content |-> build_system_prompt(r.rag_tokens)]>>
        \o <<[role |-> "user", content |-> r.message]>>
        \o r.history

\* build_messages: the list assembled around the history for the completion
assembled(r) ==
    <<[role |-> "system", content |-> build_system_prompt(r.rag_tokens)]>>
        \o r.history
        \o <<[role |-> "user", content |-> r.message]>>

\* build_messages: total_tokens, the estimate returned with the list
total_tokens(r) == count_tokens(assembled(r))

\* get_managed_history, fast path: every row, as it is
fast_path(t) ==
    /\ turn[t].pc = "fast"
    /\ turn' = [turn EXCEPT ![t] =
                   [@ EXCEPT !.pc = "ollama", !.conv = NoRow,
                             !.history = RoleContents(messages),
                             !.will_summarize = FALSE]]
    /\ UNCHANGED <<storeVars, requests, ragVars>>

\* get_managed_history, cached summary: the rows after summarized_up_to_id
cached_summary(t) ==
    /\ turn[t].pc = "cached"
    /\ LET recent == RoleContents(
                        RowsAfter(messages, turn[t].conv.summarized_up_to_id))
       IN  turn' = [turn EXCEPT ![t] =
              IF RecentOverflows(recent, history_budget(t))
              THEN [@ EXCEPT !.pc = "generate"]
              ELSE [@ EXCEPT !.pc = "ollama", !.conv = NoRow,
                             !.history = <<SummaryMessage(turn[t].conv.summary)>>
                                            \o recent,
                             !.will_summarize = FALSE]]
    /\ UNCHANGED <<storeVars, requests, ragVars>>

\* a bug: compression reported although nothing was summarized
generate_ReportsCompress(t) ==
    /\ turn[t].pc = "generate"
    /\ turn' = [turn EXCEPT ![t] =
          IF Trimmable(messages) = <<>>
          THEN [@ EXCEPT !.pc = "ollama", !.conv = NoRow,
                         !.history = RoleContents(Protected(messages)),
                         !.will_summarize = TRUE]
          ELSE [@ EXCEPT !.pc = "summarize", !.all_messages = messages]]
    /\ UNCHANGED <<storeVars, requests, ragVars>>

\* _generate_and_cache_summary: the read of all rows and the split
generate(t) ==
    /\ turn[t].pc = "generate"
    /\ turn' = [turn EXCEPT ![t] =
          IF Trimmable(messages) = <<>>
          THEN [@ EXCEPT !.pc = "ollama", !.conv = NoRow,
                         !.history = RoleContents(Protected(messages)),
                         !.will_summarize = FALSE]
          ELSE [@ EXCEPT !.pc = "summarize", !.all_messages = messages]]
    /\ UNCHANGED <<storeVars, requests, ragVars>>

\* _generate_and_cache_summary after the read: summarize_messages (one
\* request to the completion provider; a timeout or any other failure yields
\* a placeholder), the UPDATE that caches the result, the history returned
cache_summary(t) ==
    /\ turn[t].pc = "summarize"
    /\ \E outcome \in SummarizerOutcomes :
          LET text == summarize_messages(outcome,
                                         ToSummarize(turn[t].all_messages))
          IN
          /\ summary' = text
          /\ turn' = [turn EXCEPT ![t] =
                [@ EXCEPT !.pc = "ollama", !.conv = NoRow,
                          !.all_messages = <<>>,
                          !.calls = @ \cup {"summarize"},
                          !.summarizer = Append(@, outcome),
                          !.history = CompressedHistory(turn[t].all_messages, text),
                          !.will_summarize = TRUE]]
    /\ summarized_up_to_id' = LastSummarizedId(turn[t].all_messages)
    /\ UNCHANGED <<conv_exists, title, token_count, message_count, messages,
                   requests, ragVars>>

\* stream_response: the streamed completion.  Without a response (an empty
\* stream) nothing is saved; a refused connection, a non-200 status or an
\* exception ends the turn with an error event.
ollama_stream(t) ==
    /\ turn[t].pc = "ollama"
    /\ \/ turn' = [turn EXCEPT ![t] = IdleTurn]
       \/ \E r \in AsstContents :
             turn' = [turn EXCEPT ![t] =
                [@ EXCEPT !.pc = "user_insert", !.complete_response = r,
                          !.calls = {}, !.summarizer = <<>>, !.rag_tokens = 0,
                          !.history = <<>>, !.will_summarize = FALSE]]
    /\ UNCHANGED <<storeVars, requests, ragVars>>

\* the message save_message is writing at the turn's position
SavedRole(t) ==
    IF turn[t].pc \in {"user_insert", "user_update"} THEN "user" ELSE "assistant"
SavedContent(t) ==
    IF SavedRole(t) = "user" THEN turn[t].message ELSE turn[t].complete_response

\* save_message: INSERT INTO messages
save_message_insert(t) ==
    /\ turn[t].pc \in {"user_insert", "assistant_insert"}
    /\ messages' = Append(messages, NewRow(messages, SavedRole(t), SavedContent(t)))
    /\ turn' = [turn EXCEPT ![t].pc =
                   IF @ = "user_insert" THEN "user_update" ELSE "assistant_update"]
    /\ UNCHANGED <<conv_exists, title, token_count, message_count, summary,
                   summarized_up_to_id, requests, ragVars>>

\* a bug: the append also drops the cached summary
save_message_update_DropsSummary(t) ==
    /\ turn[t].pc \in {"user_update", "assistant_update"}
    /\ token_count' = NewTokenCount(token_count, SavedContent(t))
    /\ message_count' = message_count + 1
    /\ summary' = NoSummary
    /\ turn' = [turn EXCEPT ![t] =
                   IF @.pc = "user_update" THEN [@ EXCEPT !.pc = "assistant_insert"]
                   ELSE IdleTurn]
    /\ UNCHANGED <<conv_exists, title, summarized_up_to_id, messages, requests,
                   ragVars>>

\* save_message: UPDATE conversations SET token_count, message_count
save_message_update(t) ==
    /\ turn[t].pc \in {"user_update", "assistant_update"}
    /\ token_count' = NewTokenCount(token_count, SavedContent(t))
    /\ message_count' = message_count + 1
    /\ turn' = [turn EXCEPT ![t] =
                   IF @.pc = "user_update" THEN [@ EXCEPT !.pc = "assistant_insert"]
                   ELSE IdleTurn]
    /\ UNCHANGED <<conv_exists, title, summary, summarized_up_to_id, messages,
                   requests, ragVars>>

\* positions at which the turn's next step is a statement of the store
StorePcs ==
    {"stream_response", "fast", "cached", "generate", "summarize",
     "user_insert", "user_update", "assistant_insert", "assistant_update"}

\* the store is unreachable: the statement raises and nothing catches it
store_failure(t) ==
    /\ turn[t].pc \in StorePcs
    /\ turn' = [turn EXCEPT ![t] = IdleTurn]
    /\ UNCHANGED <<storeVars, requests, ragVars>>

Next ==
    \E t \in Turns :
        \/ chat(t)
        \/ build_messages(t)
        \/ fast_path(t)
        \/ cached_summary(t)
        \/ generate(t)
        \/ cache_summary(t)
        \/ ollama_stream(t)
        \/ save_message_insert(t)
        \/ save_message_update(t)

\* the store answers every statement
Spec == Init /\ [][Next]_vars

\* the store may fail any statement
NextStoreFail == Next \/ \E t \in Turns : store_failure(t)
SpecStoreFail == Init /\ [][NextStoreFail]_vars

(* ------------------------------ retrieval ------------------------------- *)

\* reciprocal_rank_fusion: k
RRF_K == 60
\* 1 / (k + rank + 1) for ranks 0..3 as whole numbers: a common multiple of
\* 61..64 over the denominator.  No list of the model is longer than four.
RRF_SCALE == 61 * 62 * 63 * 64
\* a bug: every rank weighs as the first
RRFWeight_Flat(rank) == RRF_SCALE \div (RRF_K + 1)
RRFWeight(rank) == RRF_SCALE \div (RRF_K + rank + 1)

Range(f) == {f[i] : i \in DOMAIN f}
Min(a, b) == IF a <= b THEN a ELSE b
\* s[:n]
Take(s, n) == SubSeq(s, 1, Min(n, Len(s)))

\* a bug: a sort that is not stable, equal scores come out reversed
InsertByScore_Unstable(sorted, x) ==
    LET n == Cardinality({i \in 1..Len(sorted) : sorted[i].score > x.score})
    IN  SubSeq(sorted, 1, n) \o <<x>> \o SubSeq(sorted, n + 1, Len(sorted))

\* sorted(items, key=score, reverse=True): a stable sort, equal scores keep
\* the order they came in
InsertByScore(sorted, x) ==
    LET n == Cardinality({i \in 1..Len(sorted) : sorted[i].score >= x.score})
    IN  SubSeq(sorted, 1, n) \o <<x>> \o SubSeq(sorted, n + 1, Len(sorted))
RECURSIVE SortByScoreDesc(_)
SortByScoreDesc(items) ==
    IF items = <<>> THEN <<>>
    ELSE InsertByScore(SortByScoreDesc(SubSeq(items, 1, Len(items) - 1)),
                       items[Len(items)])

\* the keys of a dict filled from a list, in insertion order
RECURSIVE FirstSeen(_)
FirstSeen(ids) ==
    IF ids = <<>> THEN <<>>
    ELSE LET front == FirstSeen(SubSeq(ids, 1, Len(ids) - 1))
             x == ids[Len(ids)]
         IN  IF x \in Range(front) THEN front ELSE Append(front, x)

\* the sum of 1 / (k + rank + 1) over the positions an id has in a list
RECURSIVE RankSum(_, _)
RankSum(ids, id) ==
    IF ids = <<>> THEN 0
    ELSE RankSum(SubSeq(ids, 1, Len(ids) - 1), id)
         + (IF ids[Len(ids)] = id THEN RRFWeight(Len(ids) - 1) ELSE 0)

ChunkIds(hits) == [i \in 1..Len(hits) |-> hits[i].chunk_id]

\* reciprocal_rank_fusion(vector_hits, bm25_hits): the chunk ids by combined
\* score, greatest first
reciprocal_rank_fusion(vector_hits, bm25_hits) ==
    LET v == ChunkIds(vector_hits)
        b == ChunkIds(bm25_hits)
        keys == FirstSeen(v \o b)
        scored == [i \in 1..Len(keys) |->
                     [chunk_id |-> keys[i],
                      score |-> RankSum(v, keys[i]) + RankSum(b, keys[i])]]
    IN  ChunkIds(SortByScoreDesc(scored))

\* qdrant.search: the nearest `limit` points that pass the filter. The filter
\* always matches user_id; docs = <<>> stands for no document_id condition.
DenseSearch(pts, limit, user, docs) ==
    Take(SelectSeq(pts, LAMBDA pt :
              /\ pt.user_id = user
              /\ docs # <<>> => pt.document_id \in Range(docs)), limit)

\* get_bm25_index: the stored index of a document, empty if there is none
get_bm25_index(indexes, doc_id) ==
    IF doc_id \in DOMAIN indexes THEN indexes[doc_id] ELSE <<>>

\* the entries of the indexes of the documents, merged in the order given
RECURSIVE MergedIndex(_, _)
MergedIndex(indexes, ids) ==
    IF ids = <<>> THEN <<>>
    ELSE get_bm25_index(indexes, Head(ids)) \o MergedIndex(indexes, Tail(ids))

\* a bug: the chunks the scorer gives no score are kept
bm_25_search_KeepsZero(indexes, ids, top_k) ==
    IF ids = <<>> THEN <<>>
    ELSE Take(SortByScoreDesc(MergedIndex(indexes, ids)), top_k)

\* _bm_25_search: the entries of the merged index the scorer gives a score
\* above 0, best first, at most top_k.  An entry carries the score the scorer
\* (a library) gives its chunk for the query.
bm_25_search(indexes, ids, top_k) ==
    IF ids = <<>> THEN <<>>
    ELSE Take(SortByScoreDesc(
                 SelectSeq(MergedIndex(indexes, ids), LAMBDA e : e.score > 0)),
              top_k)

\* a bug: the rows of the ranked chunks joined without the owner condition
FetchRows_AnyOwner(docs, chs, ranked, user) ==
    LET found == SelectSeq(ranked, LAMBDA c : c \in DOMAIN chs)
    IN  [i \in 1..Len(found) |->
            [chunk_id |-> found[i], document_id |-> chs[found[i]]]]

\* retrieve: the rows of the ranked chunks whose document the user owns, one
\* source per ranked id that has a row, in ranked order
FetchRows(docs, chs, ranked, user) ==
    LET found == SelectSeq(ranked, LAMBDA c :
                     /\ c \in DOMAIN chs
                     /\ chs[c] \in DOMAIN docs
                     /\ docs[chs[c]].user_id = user)
    IN  [i \in 1..Len(found) |->
            [chunk_id |-> found[i], document_id |-> chs[found[i]]]]

\* a bug: the test for a shared word is left out
RECURSIVE BestMatch_NoSharedWord(_, _, _, _)
BestMatch_NoSharedWord(docs, ids, best, best_score) ==
    IF ids = <<>> THEN best
    ELSE LET d == docs[Head(ids)]
         IN  IF d.ratio > 80 /\ d.ratio > best_score
             THEN BestMatch_NoSharedWord(docs, Tail(ids), Head(ids), d.ratio)
             ELSE BestMatch_NoSharedWord(docs, Tail(ids), best, best_score)

\* find_referenced_document: among the documents of the scope the user owns
\* that are complete, share a word with the query and score above 80, the
\* first of the best score; "" for None
RECURSIVE BestMatch(_, _, _, _)
BestMatch(docs, ids, best, best_score) ==
    IF ids = <<>> THEN best
    ELSE LET d == docs[Head(ids)]
         IN  IF d.shares_word /\ d.ratio > 80 /\ d.ratio > best_score
             THEN BestMatch(docs, Tail(ids), Head(ids), d.ratio)
             ELSE BestMatch(docs, Tail(ids), best, best_score)

\* the documents table in a fixed order, as the SELECT returns its rows
DocumentOrder == <<"d1", "d2", "d3">>

find_referenced_document(docs, user, document_ids) ==
    BestMatch(docs,
              SelectSeq(DocumentOrder, LAMBDA d :
                  /\ d \in DOMAIN docs
                  /\ document_ids # <<>> => d \in Range(document_ids)
                  /\ docs[d].user_id = user
                  /\ docs[d].status = "complete"),
              "", 0)

\* a call to a provider or a store: what was called, the number of
\* candidates asked for, the user_id condition (0: none) and the documents
\* it was restricted to (<<>>: no document condition)
Call(op, limit, user, docs) ==
    [op |-> op, limit |-> limit, user |-> user, docs |-> docs]

\* the users, the scopes and the values of top_k of the calls of the model
Users == {1, 2}
Scopes == {<<>>, <<"d1">>, <<"d1", "d2">>, <<"d3">>, <<"d1", "d3">>}
TopKs == {1, 2, 3}

\* the test at the top of retrieve: nothing attached and no search_all
SkipsRetrieval_Inverted(doc_ids, search_all) == doc_ids = <<>> /\ search_all
SkipsRetrieval(doc_ids, search_all) == doc_ids = <<>> /\ ~search_all

\* retrieve called: the empty-scope test
retrieve_call ==
    /\ retrieval.pc \in {"idle", "done"}
    /\ \E user \in Users, ids \in Scopes, all \in BOOLEAN, k \in TopKs :
          retrieval' =
             [NoRetrieval EXCEPT
                 !.pc = IF SkipsRetrieval(ids, all) THEN "done" ELSE "embed",
                 !.user_id = user, !.document_ids = ids,
                 !.search_all = all, !.top_k = k]
    /\ UNCHANGED <<chatVars, knowledgeVars, ingest, call, documentVars>>

\* except Exception: the call returns the empty list
Failed(r, op) ==
    [r EXCEPT !.pc = "done", !.result = <<>>, !.failed = @ \cup {op}]

\* embed_text: the embedding of the query
embed_text ==
    /\ retrieval.pc = "embed"
    /\ LET r == [retrieval EXCEPT
                    !.calls = Append(@, Call("embedding", 0, 0, <<>>))]
       IN  \/ retrieval' =
                [r EXCEPT !.pc = IF r.document_ids # <<>>
                                 THEN "find_referenced" ELSE "search_all"]
           \/ retrieval' = Failed(r, "embedding")
    /\ UNCHANGED <<chatVars, knowledgeVars, ingest, call, documentVars>>

\* a bug: the document found is searched first, the others are kept
find_referenced_KeepsOthers ==
    /\ retrieval.pc = "find_referenced"
    /\ LET r == [retrieval EXCEPT
                    !.calls = Append(@, Call("documents_read", 0,
                                             retrieval.user_id,
                                             retrieval.document_ids))]
           referenced_id == find_referenced_document(
                               documents, r.user_id, r.document_ids)
       IN  \/ retrieval' =
                [r EXCEPT !.pc = "gather",
                          !.search_ids =
                             IF referenced_id # ""
                             THEN <<referenced_id>>
                                  \o SelectSeq(r.document_ids,
                                               LAMBDA d : d # referenced_id)
                             ELSE r.document_ids]
           \/ retrieval' = Failed(r, "documents_read")
    /\ UNCHANGED <<chatVars, knowledgeVars, ingest, call, documentVars>>

\* find_referenced_document and the choice of search_ids
find_referenced ==
    /\ retrieval.pc = "find_referenced"
    /\ LET r == [retrieval EXCEPT
                    !.calls = Append(@, Call("documents_read", 0,
                                             retrieval.user_id,
                                             retrieval.document_ids))]
           referenced_id == find_referenced_document(
                               documents, r.user_id, r.document_ids)
       IN  \/ retrieval' =
                [r EXCEPT !.pc = "gather",
                          !.search_ids = IF referenced_id # ""
                                         THEN <<referenced_id>>
                                         ELSE r.document_ids]
           \/ retrieval' = Failed(r, "documents_read")
    /\ UNCHANGED <<chatVars, knowledgeVars, ingest, call, documentVars>>

\* asyncio.gather: both coroutines are made tasks and each runs up to its
\* first suspension before the loop attends to any completion
gather ==
    /\ retrieval.pc = "gather"
    /\ retrieval' =
          [retrieval EXCEPT
              !.pc = "join", !.dense = "running", !.sparse = "running",
              !.calls = @ \o <<Call("dense_search", retrieval.top_k * 3,
                                    retrieval.user_id, retrieval.search_ids),
                               Call("sparse_search", retrieval.top_k * 3,
                                    0, retrieval.search_ids)>>]
    /\ UNCHANGED <<chatVars, knowledgeVars, ingest, call, documentVars>>

\* a bug: the failing branch counted as a branch without hits
BranchFailed_AsEmpty(r, branch) ==
    IF branch = "dense_search"
    THEN [r EXCEPT !.dense = "done", !.failed = @ \cup {branch}]
    ELSE [r EXCEPT !.sparse = "done", !.failed = @ \cup {branch}]

\* a branch of the gather raises: gather raises at once, retrieve returns
BranchFailed(r, branch) ==
    IF branch = "dense_search"
    THEN Failed([r EXCEPT !.dense = "failed"], branch)
    ELSE Failed([r EXCEPT !.sparse = "failed"], branch)

\* qdrant.search of the gather answers
dense_search ==
    /\ retrieval.pc = "join"
    /\ retrieval.dense = "running"
    /\ \/ retrieval' =
             [retrieval EXCEPT
                 !.dense = "done",
                 !.vector_hits = DenseSearch(points, retrieval.top_k * 3,
                                             retrieval.user_id,
                                             retrieval.search_ids)]
       \/ retrieval' = BranchFailed(retrieval, "dense_search")
    /\ UNCHANGED <<chatVars, knowledgeVars, ingest, call, documentVars>>

\* the loop of _bm_25_search over the documents that are in the cache:
\* get_bm25_index returns the cached index without suspending
RECURSIVE CacheHits(_, _, _)
CacheHits(loaded, ids, cache) ==
    IF Len(loaded) < Len(ids) /\ ids[Len(loaded) + 1] \in DOMAIN cache
    THEN CacheHits(Append(loaded, cache[ids[Len(loaded) + 1]]), ids, cache)
    ELSE loaded

\* get_bm25_index, 11-15: the document is not in the cache, its row is read
\* from the store
get_bm25_index_read ==
    /\ retrieval.pc = "join"
    /\ retrieval.sparse = "running"
    /\ retrieval.row = <<>>
    /\ LET loaded == CacheHits(retrieval.loaded, retrieval.search_ids,
                               bm25_cache)
       IN  /\ Len(loaded) < Len(retrieval.search_ids)
           /\ LET d == retrieval.search_ids[Len(loaded) + 1]
              IN  \/ retrieval' =
                        [retrieval EXCEPT
                            !.loaded = loaded,
                            !.row = <<[document_id |-> d,
                                       index |-> get_bm25_index(bm25_indexes,
                                                                d)]>>]
                  \/ retrieval' = BranchFailed(
                                     [retrieval EXCEPT !.loaded = <<>>],
                                     "sparse_search")
    /\ UNCHANGED <<chatVars, knowledgeVars, ingest, call, documentVars>>

\* get_bm25_index, 16-24: the row read, or the empty index, is put in the
\* cache and returned from it
get_bm25_index_store ==
    /\ retrieval.pc = "join"
    /\ retrieval.sparse = "running"
    /\ retrieval.row # <<>>
    /\ LET d == retrieval.row[1].document_id
       IN  /\ bm25_cache' = [e \in DOMAIN bm25_cache \cup {d} |->
                                IF e = d THEN retrieval.row[1].index
                                ELSE bm25_cache[e]]
           /\ retrieval' = [retrieval EXCEPT
                               !.loaded = Append(@, bm25_cache'[d]),
                               !.row = <<>>]
    /\ UNCHANGED <<chatVars, documents, chunks, points, bm25_indexes, ingest,
                   call, documentVars>>

\* _bm_25_search of the gather ends: the indexes left to get are in the
\* cache, the merged index is scored
sparse_search ==
    /\ retrieval.pc = "join"
    /\ retrieval.sparse = "running"
    /\ retrieval.row = <<>>
    /\ LET loaded == CacheHits(retrieval.loaded, retrieval.search_ids,
                               bm25_cache)
       IN  /\ Len(loaded) = Len(retrieval.search_ids)
           /\ retrieval' =
                 [retrieval EXCEPT
                     !.sparse = "done",
                     !.loaded = <<>>,
                     !.bm25_hits =
                        bm_25_search(
                           [d \in Range(retrieval.search_ids) |->
                               loaded[CHOOSE i \in 1..Len(loaded) :
                                         retrieval.search_ids[i] = d]],
                           retrieval.search_ids, retrieval.top_k * 3)]
    /\ UNCHANGED <<chatVars, knowledgeVars, ingest, call, documentVars>>

\* a bug: the first branch to complete is fused alone
JoinReady_FirstCompleted(r) == r.dense = "done" \/ r.sparse = "done"

\* the gather returns once both branches have
JoinReady(r) == r.dense = "done" /\ r.sparse = "done"

\* a bug: the fused list is not cut to top_k
fuse_NoCut ==
    /\ retrieval.pc = "join"
    /\ JoinReady(retrieval)
    /\ LET ranked_ids == reciprocal_rank_fusion(retrieval.vector_hits,
                                                retrieval.bm25_hits)
       IN  retrieval' =
              [retrieval EXCEPT
                  !.ranked_ids = ranked_ids,
                  !.pc = IF ranked_ids = <<>> THEN "done" ELSE "fetch"]
    /\ UNCHANGED <<chatVars, knowledgeVars, ingest, call, documentVars>>

\* after the gather: rank fusion, cut to top_k
fuse ==
    /\ retrieval.pc = "join"
    /\ JoinReady(retrieval)
    /\ LET ranked_ids == Take(reciprocal_rank_fusion(retrieval.vector_hits,
                                                      retrieval.bm25_hits),
                               retrieval.top_k)
       IN  retrieval' =
              [retrieval EXCEPT
                  !.ranked_ids = ranked_ids,
                  !.pc = IF ranked_ids = <<>> THEN "done" ELSE "fetch"]
    /\ UNCHANGED <<chatVars, knowledgeVars, ingest, call, documentVars>>

\* search_all without attached documents: the dense search alone
search_all_dense ==
    /\ retrieval.pc = "search_all"
    /\ LET r == [retrieval EXCEPT
                    !.calls = Append(@, Call("dense_search", retrieval.top_k,
                                             retrieval.user_id, <<>>))]
           hits == DenseSearch(points, r.top_k, r.user_id, <<>>)
       IN  \/ retrieval' =
                [r EXCEPT !.dense = "done", !.vector_hits = hits,
                          !.ranked_ids = ChunkIds(hits),
                          !.pc = IF hits = <<>> THEN "done" ELSE "fetch"]
           \/ retrieval' = Failed(r, "dense_search")
    /\ UNCHANGED <<chatVars, knowledgeVars, ingest, call, documentVars>>

\* the rows of the ranked chunks, and the sources built from them
fetch_rows ==
    /\ retrieval.pc = "fetch"
    /\ LET r == [retrieval EXCEPT
                    !.calls = Append(@, Call("chunks_read", 0,
                                             retrieval.user_id, <<>>))]
       IN  \/ retrieval' =
                [r EXCEPT !.pc = "done",
                          !.result = FetchRows(documents, chunks, r.ranked_ids,
                                               r.user_id)]
           \/ retrieval' = Failed(r, "chunks_read")
    /\ UNCHANGED <<chatVars, knowledgeVars, ingest, call, documentVars>>

\* what the matcher makes of the filenames for the query of the model: no
\* document named, d2 named, or d2 and (better) d3 named
Unmatched == [ratio |-> 40, shares_word |-> FALSE]
Matched(ratio) == [ratio |-> ratio, shares_word |-> TRUE]
MatchCases ==
    {[d \in {"d1", "d2", "d3"} |-> Unmatched],
     [d \in {"d1", "d2", "d3"} |-> IF d = "d2" THEN Matched(90) ELSE Unmatched],
     [d \in {"d1", "d2", "d3"} |->
         CASE d = "d2" -> Matched(90) [] d = "d3" -> Matched(100)
           [] OTHER -> Unmatched]}

\* d1 and d2 belong to user 1, d3 to user 2; all were ingested
DocumentsOf(match) ==
    [d \in {"d1", "d2", "d3"} |->
        [user_id |-> IF d = "d3" THEN 2 ELSE 1, status |-> "complete",
         chunk_count |-> 1,
         ratio |-> match[d].ratio, shares_word |-> match[d].shares_word]]

StoredChunks ==
    [c \in {"c1", "c2", "c3"} |->
        CASE c = "c1" -> "d1" [] c = "c2" -> "d2" [] OTHER -> "d3"]

Point(user, doc, chunk) ==
    [user_id |-> user, document_id |-> doc, chunk_id |-> chunk]
Entry(chunk, score) == [chunk_id |-> chunk, score |-> score]

\* The dense collection, nearest first: as ingestion leaves it, or holding a
\* payload of user 1 for a chunk of user 2 and a point of a chunk that is
\* stored no more.
PointCases ==
    {<<Point(1, "d1", "c1"), Point(2, "d3", "c3"), Point(1, "d2", "c2")>>,
     <<Point(1, "d1", "c3"), Point(1, "d1", "c1"), Point(1, "d2", "c9")>>}

\* The sparse indexes: as ingestion leaves them, or d1's index listing a
\* chunk of user 2 and a chunk stored no more, d2's chunk scoring 0 and d3
\* without an index.
IndexCases ==
    {[d \in {"d1", "d2", "d3"} |->
         CASE d = "d1" -> <<Entry("c1", 2)>> [] d = "d2" -> <<Entry("c2", 3)>>
           [] OTHER -> <<Entry("c3", 4)>>],
     [d \in {"d1", "d2"} |->
         IF d = "d1" THEN <<Entry("c3", 4), Entry("c1", 2), Entry("c9", 1)>>
         ELSE <<Entry("c2", 0)>>]}

NextRetrieve ==
    \/ retrieve_call
    \/ embed_text
    \/ find_referenced
    \/ gather
    \/ dense_search
    \/ get_bm25_index_read
    \/ get_bm25_index_store
    \/ sparse_search
    \/ fuse
    \/ search_all_dense
    \/ fetch_rows

\* retrieval over stores that ingestion has filled, no chat turn running
InitRetrieve ==
    /\ messages = <<>>
    /\ conv_exists = FALSE
    /\ title = "none"
    /\ token_count = 0
    /\ message_count = 0
    /\ summary = NoSummary
    /\ summarized_up_to_id = 0
    /\ turn = [t \in Turns |-> IdleTurn]
    /\ requests = 0
    /\ \E match \in MatchCases : documents = DocumentsOf(match)
    /\ chunks = StoredChunks
    /\ points \in PointCases
    /\ bm25_indexes \in IndexCases
    /\ bm25_cache = <<>>
    /\ retrieval = NoRetrieval
    /\ ingest = NoIngest
    /\ progress = <<>>
    /\ deletion = NoDeletion
    /\ progress_response = NoResponse
    /\ call = NoCall

SpecRetrieve == InitRetrieve /\ [][NextRetrieve]_vars

(* ------------------------------ ingestion ------------------------------- *)

\* f"{document_id}_chunk_{i}": the id of chunk i of a document, in the names
\* of the model
ChunkId(document_id, i) ==
    CASE document_id = "d1" /\ i = 0 -> "c1"
      [] document_id = "d1" /\ i = 1 -> "c4"
      [] document_id = "d2" /\ i = 0 -> "c2"
      [] document_id = "d3" /\ i = 0 -> "c3"
      [] OTHER -> "none"

\* the upload of the model: document d1 of user 1, the chunks chunk_text cuts
\* it in (chunk_index 0 and 1) and what the scorer gives them for the query
UploadChunks == <<ChunkId("d1", 0), ChunkId("d1", 1)>>
UploadIndex == <<Entry(UploadChunks[1], 2), Entry(UploadChunks[2], 1)>>

\* _progress[document_id] = {"stage": ..., "done": ..., "total": ...}
SetProgress(document_id, stage, done, total) ==
    [d \in DOMAIN progress \cup {document_id} |->
        IF d = document_id
        THEN [stage |-> stage, done |-> done, total |-> total]
        ELSE progress[d]]

\* _progress.pop(document_id, None)
PopProgress(document_id) ==
    [d \in DOMAIN progress \ {document_id} |-> progress[d]]

\* upload_document: the documents row is inserted as 'processing' and the
\* processing is scheduled
upload_document ==
    /\ ingest.pc = "idle"
    /\ "d1" \notin DOMAIN documents
    /\ documents' =
          [d \in DOMAIN documents \cup {"d1"} |->
              IF d = "d1"
              THEN [user_id |-> 1, status |-> "processing",
                    chunk_count |-> 0,
                    ratio |-> Unmatched.ratio,
                    shares_word |-> Unmatched.shares_word]
              ELSE documents[d]]
    /\ ingest' = [NoIngest EXCEPT !.pc = "start", !.document_id = "d1",
                                  !.user_id = 1]
    /\ UNCHANGED <<chatVars, chunks, points, bm25_indexes, bm25_cache,
                   retrieval, call, documentVars>>

\* _process_document, 76-78: the task starts, enters the document in
\* _progress and hands the extraction to a thread
process_document ==
    /\ ingest.pc = "start"
    /\ progress' = SetProgress(ingest.document_id, "extracting", 0, 0)
    /\ ingest' = [ingest EXCEPT !.pc = "extract"]
    /\ UNCHANGED <<chatVars, knowledgeVars, retrieval, call, deletion,
                   progress_response>>

\* _process_document, 78-106: the text is extracted and cut in chunks, or
\* there is an error or nothing to chunk and the entry is popped
extract_and_chunk ==
    /\ ingest.pc = "extract"
    /\ \E ok \in BOOLEAN :
          /\ ingest' = [ingest EXCEPT !.pc = IF ok THEN "embed" ELSE "failed"]
          /\ progress' = IF ok
                         THEN SetProgress(ingest.document_id, "embedding", 0,
                                          Len(UploadChunks))
                         ELSE PopProgress(ingest.document_id)
    /\ UNCHANGED <<chatVars, knowledgeVars, retrieval, call, deletion,
                   progress_response>>

\* a bug: a chunk that failed is logged and left out, the loop goes on
store_chunk_Continues ==
    /\ ingest.pc = "embed"
    /\ Len(ingest.done) < Len(UploadChunks)
    /\ LET chunk_id == UploadChunks[Len(ingest.done) + 1]
       IN  /\ \/ /\ ingest.document_id \in DOMAIN documents
                 /\ chunks' = [c \in DOMAIN chunks \cup {chunk_id} |->
                                  IF c = chunk_id /\ c \notin DOMAIN chunks
                                  THEN ingest.document_id ELSE chunks[c]]
              \/ UNCHANGED chunks
           /\ ingest' = [ingest EXCEPT !.done = Append(@, chunk_id)]
           /\ progress' = SetProgress(ingest.document_id, "embedding",
                                      Len(ingest.done) + 1, Len(UploadChunks))
    /\ UNCHANGED <<chatVars, documents, points, bm25_indexes, bm25_cache,
                   retrieval, call, deletion, progress_response>>

\* 112-152, one turn of the loop: the chunk is embedded, its row inserted
\* and the entry of _progress advanced, or one of the two calls raises and
\* the handler at 171-172 pops the entry.  document_chunks rows refer to
\* their documents row (a delete cascades to them, 302), so the insert needs
\* the row.
store_chunk ==
    /\ ingest.pc = "embed"
    /\ Len(ingest.done) < Len(UploadChunks)
    /\ LET chunk_id == UploadChunks[Len(ingest.done) + 1]
       IN  \/ /\ ingest.document_id \in DOMAIN documents
              /\ chunks' = [c \in DOMAIN chunks \cup {chunk_id} |->
                               IF c = chunk_id /\ c \notin DOMAIN chunks
                               THEN ingest.document_id ELSE chunks[c]]
              /\ ingest' = [ingest EXCEPT !.done = Append(@, chunk_id)]
              /\ progress' = SetProgress(ingest.document_id, "embedding",
                                         Len(ingest.done) + 1,
                                         Len(UploadChunks))
           \/ /\ ingest' = [ingest EXCEPT !.pc = "failed"]
              /\ progress' = PopProgress(ingest.document_id)
              /\ UNCHANGED chunks
    /\ UNCHANGED <<chatVars, documents, points, bm25_indexes, bm25_cache,
                   retrieval, call, deletion, progress_response>>

\* 155-156: the points of all chunks are upserted, or the upsert raises
upsert_points ==
    /\ ingest.pc = "embed"
    /\ Len(ingest.done) = Len(UploadChunks)
    /\ \/ /\ points' = points \o [i \in 1..Len(ingest.done) |->
                                    Point(ingest.user_id, ingest.document_id,
                                          ingest.done[i])]
          /\ ingest' = [ingest EXCEPT !.pc = "build_index"]
          /\ UNCHANGED progress
       \/ /\ ingest' = [ingest EXCEPT !.pc = "failed"]
          /\ progress' = PopProgress(ingest.document_id)
          /\ UNCHANGED points
    /\ UNCHANGED <<chatVars, documents, chunks, bm25_indexes, bm25_cache,
                   retrieval, call, deletion, progress_response>>

\* build_bm25_index, 40-50: the index is written to the store, or the write
\* raises
build_bm25_index ==
    /\ ingest.pc = "build_index"
    /\ \/ /\ bm25_indexes' =
                [d \in DOMAIN bm25_indexes \cup {ingest.document_id} |->
                    IF d = ingest.document_id THEN UploadIndex
                    ELSE bm25_indexes[d]]
          /\ ingest' = [ingest EXCEPT !.pc = "invalidate"]
          /\ UNCHANGED progress
       \/ /\ ingest' = [ingest EXCEPT !.pc = "failed"]
          /\ progress' = PopProgress(ingest.document_id)
          /\ UNCHANGED bm25_indexes
    /\ UNCHANGED <<chatVars, documents, chunks, points, bm25_cache, retrieval,
                   call, deletion, progress_response>>

\* a bug: the entry of _progress is left in place on success
invalidate_bm25_index_KeepsProgress ==
    /\ ingest.pc = "invalidate"
    /\ bm25_cache' = [d \in DOMAIN bm25_cache \ {ingest.document_id} |->
                         bm25_cache[d]]
    /\ ingest' = [ingest EXCEPT !.pc = "complete"]
    /\ UNCHANGED <<chatVars, documents, chunks, points, bm25_indexes,
                   retrieval, call, documentVars>>

\* build_bm25_index, 52, and _process_document, 162: once the write has
\* returned, the document is dropped from the cache and its entry popped
\* from _progress, before the status is written
invalidate_bm25_index ==
    /\ ingest.pc = "invalidate"
    /\ bm25_cache' = [d \in DOMAIN bm25_cache \ {ingest.document_id} |->
                         bm25_cache[d]]
    /\ progress' = PopProgress(ingest.document_id)
    /\ ingest' = [ingest EXCEPT !.pc = "complete"]
    /\ UNCHANGED <<chatVars, documents, chunks, points, bm25_indexes,
                   retrieval, call, deletion, progress_response>>

\* UPDATE documents SET processing_status = ... WHERE document_id = $1: no
\* row is changed if the document has been deleted
SetStatus(status) ==
    IF ingest.document_id \in DOMAIN documents
    THEN [documents EXCEPT ![ingest.document_id].status = status]
    ELSE documents

\* 163-168: the document is marked complete with its chunk_count, or the
\* update raises and the handler at 171-172 pops the entry
complete ==
    /\ ingest.pc = "complete"
    /\ \/ /\ documents' =
                IF ingest.document_id \in DOMAIN documents
                THEN [SetStatus("complete") EXCEPT
                         ![ingest.document_id].chunk_count = Len(UploadChunks)]
                ELSE documents
          /\ ingest' = [ingest EXCEPT !.pc = "done"]
          /\ UNCHANGED progress
       \/ /\ ingest' = [ingest EXCEPT !.pc = "failed"]
          /\ progress' = PopProgress(ingest.document_id)
          /\ UNCHANGED documents
    /\ UNCHANGED <<chatVars, chunks, points, bm25_indexes, bm25_cache,
                   retrieval, call, deletion, progress_response>>

\* 82-100 and 174-177: the document is marked 'error'; what was stored stays
mark_error ==
    /\ ingest.pc = "failed"
    /\ documents' = SetStatus("error")
    /\ ingest' = [ingest EXCEPT !.pc = "done"]
    /\ UNCHANGED <<chatVars, chunks, points, bm25_indexes, bm25_cache,
                   retrieval, call, documentVars>>

NextIngest ==
    \/ upload_document
    \/ process_document
    \/ extract_and_chunk
    \/ store_chunk
    \/ upsert_points
    \/ build_bm25_index
    \/ invalidate_bm25_index
    \/ complete
    \/ mark_error
    \/ NextRetrieve

\* d2 of user 1 and d3 of user 2 ingested, d1 not uploaded yet, no index in
\* the cache
InitIngest ==
    /\ messages = <<>>
    /\ conv_exists = FALSE
    /\ title = "none"
    /\ token_count = 0
    /\ message_count = 0
    /\ summary = NoSummary
    /\ summarized_up_to_id = 0
    /\ turn = [t \in Turns |-> IdleTurn]
    /\ requests = 0
    /\ documents = [d \in {"d2", "d3"} |->
                       DocumentsOf([e \in {"d1", "d2", "d3"} |-> Unmatched])[d]]
    /\ chunks = [c \in {"c2", "c3"} |-> StoredChunks[c]]
    /\ points = <<Point(1, "d2", "c2"), Point(2, "d3", "c3")>>
    /\ bm25_indexes = [d \in {"d2", "d3"} |->
                          IF d = "d2" THEN <<Entry("c2", 3)>>
                          ELSE <<Entry("c3", 4)>>]
    /\ bm25_cache = <<>>
    /\ retrieval = NoRetrieval
    /\ ingest = NoIngest
    /\ progress = <<>>
    /\ deletion = NoDeletion
    /\ progress_response = NoResponse
    /\ call = NoCall

SpecIngest == InitIngest /\ [][NextIngest]_vars

(* ------------------------- documents requests --------------------------- *)

\* delete_document, 296-300: the row is looked up for the user; 404 without
delete_document ==
    /\ deletion.pc \in {"idle", "not_found"}
    /\ \E user \in Users :
          deletion' =
             [pc |-> IF "d1" \in DOMAIN documents
                        /\ documents["d1"].user_id = user
                     THEN "delete_row" ELSE "not_found",
              document_id |-> "d1", user_id |-> user]
    /\ UNCHANGED <<chatVars, knowledgeVars, retrieval, ingest, call, progress,
                   progress_response>>

\* delete_document, 302-303: the documents row is deleted, and with it the
\* document_chunks rows of the document; or the statement raises
delete_row ==
    /\ deletion.pc = "delete_row"
    /\ \/ /\ documents' = [d \in DOMAIN documents \ {deletion.document_id} |->
                             documents[d]]
          /\ chunks' = [c \in {e \in DOMAIN chunks :
                                  chunks[e] # deletion.document_id} |->
                           chunks[c]]
          /\ deletion' = [deletion EXCEPT !.pc = "delete_vectors"]
       \/ /\ deletion' = [deletion EXCEPT !.pc = "failed"]
          /\ UNCHANGED <<documents, chunks>>
    /\ UNCHANGED <<chatVars, points, bm25_indexes, bm25_cache, retrieval,
                   ingest, call, progress, progress_response>>

\* delete_document, 305-313: the vectors of the document are deleted, or
\* the call fails and they linger; then the entry of _progress is popped
delete_vectors ==
    /\ deletion.pc = "delete_vectors"
    /\ \/ points' = SelectSeq(points,
                LAMBDA p : p.document_id # deletion.document_id)
       \/ UNCHANGED points
    /\ progress' = PopProgress(deletion.document_id)
    /\ deletion' = [deletion EXCEPT !.pc = "done"]
    /\ UNCHANGED <<chatVars, documents, chunks, bm25_indexes, bm25_cache,
                   retrieval, ingest, call, progress_response>>

\* the body of a progress response
ProgressBody(status_code, stage, done, total, active) ==
    <<[status_code |-> status_code, stage |-> stage, done |-> done,
       total |-> total, active |-> active]>>

\* get_document_progress, 250-252: the entry of _progress, if there is one
get_document_progress ==
    /\ progress_response.pc = "idle"
    /\ \E user \in Users :
          progress_response' =
             IF "d1" \in DOMAIN progress
             THEN [pc |-> "done", document_id |-> "d1", user_id |-> user,
                   body |-> ProgressBody(200, progress["d1"].stage,
                                         progress["d1"].done,
                                         progress["d1"].total, TRUE)]
             ELSE [pc |-> "fallback", document_id |-> "d1", user_id |-> user,
                   body |-> <<>>]
    /\ UNCHANGED <<chatVars, knowledgeVars, retrieval, ingest, call, progress,
                   deletion>>

\* get_document_progress, 253-259: without an entry, the status of the row
get_document_progress_fallback ==
    /\ progress_response.pc = "fallback"
    /\ LET d == progress_response.document_id
       IN  progress_response' =
              [progress_response EXCEPT
                 !.pc = "done",
                 !.body = IF d \in DOMAIN documents
                             /\ documents[d].user_id = progress_response.user_id
                          THEN ProgressBody(200, documents[d].status, 0, 0,
                                            FALSE)
                          ELSE ProgressBody(404, "", 0, 0, FALSE)]
    /\ UNCHANGED <<chatVars, knowledgeVars, retrieval, ingest, call, progress,
                   deletion>>

NextDocuments ==
    \/ upload_document
    \/ process_document
    \/ extract_and_chunk
    \/ store_chunk
    \/ upsert_points
    \/ build_bm25_index
    \/ invalidate_bm25_index
    \/ complete
    \/ mark_error
    \/ delete_document
    \/ delete_row
    \/ delete_vectors
    \/ get_document_progress
    \/ get_document_progress_fallback

\* an upload processed while the document is deleted and its progress read
SpecDocuments == InitIngest /\ [][NextDocuments]_vars

(* --------------------------- functions applied -------------------------- *)

\* format_rag_context: len(header)
HEADER_LEN == 73

\* the filenames and texts of the sources of the model, and their lengths in
\* characters
CharLen(str) ==
    CASE str = "a.md" -> 4
      [] str = "short text" -> 10
      [] str = "medium text" -> 100
      [] OTHER -> 400

\* len(f'[{n}] [Source: {filename}]\n{text}\n\n')
SnippetLen(n, src) ==
    (IF n < 10 THEN 1 ELSE 2) + CharLen(src.filename) + CharLen(src.text) + 16

\* a bug: a snippet that overflows is passed over and the loop goes on
RECURSIVE Snippets_SkipOverflow(_, _, _, _)
Snippets_SkipOverflow(sources, n, used, char_budget) ==
    IF n > Len(sources) THEN <<>>
    ELSE IF used + SnippetLen(n, sources[n]) > char_budget
         THEN Snippets_SkipOverflow(sources, n + 1, used, char_budget)
         ELSE <<[n |-> n, filename |-> sources[n].filename,
                 text |-> sources[n].text]>>
              \o Snippets_SkipOverflow(sources, n + 1,
                                       used + SnippetLen(n, sources[n]),
                                       char_budget)

\* the loop of format_rag_context from source n on, `used` characters taken:
\* the snippets appended until one overflows
RECURSIVE Snippets(_, _, _, _)
Snippets(sources, n, used, char_budget) ==
    IF n > Len(sources) THEN <<>>
    ELSE IF used + SnippetLen(n, sources[n]) > char_budget
         THEN <<>>
         ELSE <<[n |-> n, filename |-> sources[n].filename,
                 text |-> sources[n].text]>>
              \o Snippets(sources, n + 1, used + SnippetLen(n, sources[n]),
                          char_budget)

\* the empty string
EmptyString == [header |-> FALSE, snippets |-> <<>>]

\* a bug: the header is not counted against the budget
format_rag_context_HeaderFree(sources, token_budget) ==
    IF sources = <<>> THEN EmptyString
    ELSE LET snippets == Snippets(sources, 1, 0, token_budget * 4)
         IN  IF snippets = <<>> THEN EmptyString
             ELSE [header |-> TRUE, snippets |-> snippets]

\* format_rag_context: the string returned, as the header (or not) and the
\* snippets joined after it
format_rag_context(sources, token_budget) ==
    IF sources = <<>> THEN EmptyString
    ELSE LET snippets == Snippets(sources, 1, HEADER_LEN, token_budget * 4)
         IN  IF snippets = <<>> THEN EmptyString
             ELSE [header |-> TRUE, snippets |-> snippets]

\* len of a string format_rag_context returned
RECURSIVE SnippetsLen(_)
SnippetsLen(snippets) ==
    IF snippets = <<>> THEN 0
    ELSE SnippetLen(Head(snippets).n, Head(snippets))
         + SnippetsLen(Tail(snippets))
StringLen(str) ==
    (IF str.header THEN HEADER_LEN ELSE 0) + SnippetsLen(str.snippets)

\* the longest ranked list and the longest list of sources a function of the
\* model is applied to
MaxHits == 3
MaxSources == 3

SeqsUpTo(S, n) == UNION {[1..m -> S] : m \in 0..n}

Applied(op, input) ==
    [op |-> op, input |-> input, returned |-> FALSE, out |-> <<>>]

\* the fusion applied to the hits of a dense and of a sparse search, each a
\* ranked list of chunk ids with no id twice
FusionCalls ==
    LET RankedLists ==
           {s \in SeqsUpTo({"A", "B", "C", "D"}, MaxHits) :
               \A i, j \in DOMAIN s : s[i] = s[j] => i = j}
    IN  {Applied("reciprocal_rank_fusion",
                 [vector_hits |->
                     [i \in 1..Len(a) |-> Point(1, "d1", a[i])],
                  bm25_hits |->
                     [i \in 1..Len(b) |-> Entry(b[i], Len(b) - i + 1)]]) :
            a \in RankedLists, b \in RankedLists}

\* the sparse search applied to indexes, documents and a number of candidates
SparseCalls ==
    {Applied("_bm_25_search",
             [indexes |-> ix, document_ids |-> ids, top_k |-> k]) :
        ix \in IndexCases, ids \in Scopes, k \in {1, 2, 3, 6}}

\* the disambiguation applied to a documents table: each document in a state
\* of its processing and with what the matcher can make of its filename
MatchCalls ==
    LET Names == {"d1", "d2", "d3"}
        Outcomes == {Unmatched, Matched(90), Matched(100), Matched(80),
                     [ratio |-> 90, shares_word |-> FALSE]}
        Tables ==
           {[d \in Names |->
                [user_id |-> IF d = "d3" THEN 2 ELSE 1, status |-> st[d],
                 ratio |-> m[d].ratio, shares_word |-> m[d].shares_word]] :
              st \in [Names -> {"complete", "processing", "error"}],
              m \in [Names -> Outcomes]}
    IN  {Applied("find_referenced_document",
                 [documents |-> docs, user_id |-> u, document_ids |-> ids]) :
            docs \in Tables, u \in Users, ids \in Scopes \ {<<>>}}

\* the formatting applied to a list of sources and a token budget
FormatCalls ==
    LET Sources ==
           {[filename |-> "a.md", text |-> t] :
               t \in {"short text", "medium text", "long text"}}
    IN  {Applied("format_rag_context",
                 [sources |-> srcs, token_budget |-> b]) :
            srcs \in SeqsUpTo(Sources, MaxSources),
            b \in {0, 18, 25, 26, 30, 34, 57, 200, 2000}}

\* rows read by a compression
MaxRows == 9

\* the split of _generate_and_cache_summary applied to the rows of a
\* conversation, from none to MaxRows
SplitCalls ==
    {Applied("_generate_and_cache_summary",
             [all_messages |-> RowsOf([i \in 1..n |-> Text("hi there now")])]) :
        n \in 0..MaxRows}

Returns(value) ==
    /\ ~call.returned
    /\ call' = [call EXCEPT !.returned = TRUE, !.out = value]
    /\ UNCHANGED <<chatVars, knowledgeVars, retrieval, ingest, documentVars>>

apply_reciprocal_rank_fusion ==
    /\ call.op = "reciprocal_rank_fusion"
    /\ Returns(reciprocal_rank_fusion(call.input.vector_hits,
                                      call.input.bm25_hits))

apply_bm_25_search ==
    /\ call.op = "_bm_25_search"
    /\ Returns(bm_25_search(call.input.indexes, call.input.document_ids,
                            call.input.top_k))

apply_find_referenced_document ==
    /\ call.op = "find_referenced_document"
    /\ Returns(find_referenced_document(call.input.documents,
                                        call.input.user_id,
                                        call.input.document_ids))

apply_format_rag_context ==
    /\ call.op = "format_rag_context"
    /\ Returns(format_rag_context(call.input.sources,
                                  call.input.token_budget))

\* _generate_and_cache_summary, 183-192: the spans the rows are split into;
\* with nothing trimmable the function returns before it takes a midpoint
apply_generate_and_cache_summary ==
    /\ call.op = "_generate_and_cache_summary"
    /\ LET all == call.input.all_messages
           none == Trimmable(all) = <<>>
       IN  Returns([protected |-> Protected(all),
                    trimmable |-> Trimmable(all),
                    to_summarize |-> IF none THEN <<>> ELSE ToSummarize(all),
                    remaining |-> IF none THEN <<>> ELSE Remaining(all)])

NextApply ==
    \/ apply_generate_and_cache_summary
    \/ apply_reciprocal_rank_fusion
    \/ apply_bm_25_search
    \/ apply_find_referenced_document
    \/ apply_format_rag_context

\* a function of the retrieval applied to arguments, nothing else running
InitApply ==
    /\ messages = <<>>
    /\ conv_exists = FALSE
    /\ title = "none"
    /\ token_count = 0
    /\ message_count = 0
    /\ summary = NoSummary
    /\ summarized_up_to_id = 0
    /\ turn = [t \in Turns |-> IdleTurn]
    /\ requests = 0
    /\ documents = <<>>
    /\ chunks = <<>>
    /\ points = <<>>
    /\ bm25_indexes = <<>>
    /\ bm25_cache = <<>>
    /\ retrieval = NoRetrieval
    /\ ingest = NoIngest
    /\ progress = <<>>
    /\ deletion = NoDeletion
    /\ progress_response = NoResponse
    /\ call \in FusionCalls \cup SparseCalls \cup MatchCalls \cup FormatCalls
                   \cup SplitCalls

SpecApply == InitApply /\ [][NextApply]_vars

(* ------------------------------ properties ------------------------------ *)

UpdatePcs == {"user_update", "assistant_update"}

\* turn t takes a step
Steps(t) == turn'[t] # turn[t]

\* the (role, content) pairs of rows a..b of a sequence of rows
Pairs(rows, a, b) ==
    [i \in 1..(b - a + 1) |->
        [role |-> rows[a + i - 1].role, content |-> rows[a + i - 1].content]]

\* the assembled budget of a turn, from the numbers of the specification
BudgetOf(r) == 8192 - 1000 - 1192 - count_tokens_text(r.message) - r.rag_tokens

\* C1: whenever no append is between its INSERT and its UPDATE, also after
\* appends of two turns that interleaved, token_count is the sum of the token
\* counts of the stored messages.
C1_TokenCountIsSum ==
    (\A t \in Turns : turn[t].pc \notin UpdatePcs)
        => token_count = SumTokens(messages)

\* C1 witness: the appends of two turns have interleaved (two user rows in a
\* row) and all have completed.
C1_Witness ==
    /\ \A t \in Turns : turn[t].pc \notin UpdatePcs
    /\ \E i \in 1..(Len(messages) - 1) :
          messages[i].role = "user" /\ messages[i + 1].role = "user"
    /\ message_count = Len(messages)

\* C2 (the claim as stated): the row a build_messages reads always has the
\* counters of the rows stored at that moment, whether another turn's append
\* is under way or has failed between its two statements.
C2_AppendAtomic ==
    [][\A t \in Turns :
          (turn[t].pc = "stream_response" /\ turn'[t].pc \in {"fast", "cached", "generate"})
              => /\ turn'[t].conv.token_count = SumTokens(messages)
                 /\ message_count = Len(messages)]_vars

\* C3: a row read with token_count within a positive budget sends the turn to
\* the fast path, cached summary or not; the fast path returns every stored
\* row in order as (role, content), reports no compression, calls no
\* summarizer and writes neither summary nor summarized_up_to_id.
C3_FastPath ==
    [][\A t \in Turns :
          /\ ( /\ turn[t].pc = "stream_response"
               /\ Steps(t)
               /\ BudgetOf(turn'[t]) > 0
               /\ token_count <= BudgetOf(turn'[t]) )
             => turn'[t].pc = "fast"
          /\ (turn[t].pc = "fast" /\ Steps(t))
             => /\ turn'[t].pc = "ollama"
                /\ turn'[t].history = Pairs(messages, 1, Len(messages))
                /\ turn'[t].will_summarize = FALSE
                /\ "summarize" \notin turn'[t].calls
                /\ UNCHANGED <<summary, summarized_up_to_id>>]_vars

\* C3 witness: a fast path result on a conversation that has a cached summary.
C3_Witness ==
    \E t \in Turns :
        /\ turn[t].pc = "ollama"
        /\ summary # NoSummary
        /\ Len(turn[t].history) = Len(messages)
        /\ Len(turn[t].history) >= 8
        /\ turn[t].history[1].role # "system"
        /\ ~turn[t].will_summarize

\* C4: a request is refused with the validation failure exactly when its
\* message counts more than 5500 tokens; the refusal makes no provider call,
\* opens no stream and writes nothing, and no turn past the pre-flight check
\* holds a message over the limit.
C4_Validation ==
    [][\A t \in Turns :
          /\ (turn[t].pc \in Free /\ Steps(t))
             => /\ (turn'[t].pc = "rejected")
                      <=> (count_tokens_text(turn'[t].message) > 5500)
                /\ turn'[t].pc = "rejected"
                      => /\ turn'[t].calls = {}
                         /\ ~turn'[t].stream_open
                         /\ UNCHANGED storeVars
          /\ turn'[t].pc \notin Free
             => count_tokens_text(turn'[t].message) <= 5500]_vars

\* C4 witness: a refused request beside a turn that is being served.
C4_Witness ==
    \E t, u \in Turns :
        /\ turn[t].pc = "rejected"
        /\ count_tokens_text(turn[t].message) = 5501
        /\ turn[u].pc = "summarize"

\* C5 (the claim as stated): summarized_up_to_id never decreases.
C5_UpToMonotonic ==
    [][summarized_up_to_id' >= summarized_up_to_id]_vars

\* C6 (the claim as stated): a call that found a cached summary and went on
\* to compress reports compression and leaves summarized_up_to_id greater
\* than the value it read.
C6_RecompressAdvances ==
    [][\A t \in Turns :
          ( /\ turn[t].pc = "summarize"
            /\ turn'[t].pc = "ollama"
            /\ turn[t].conv.summary # NoSummary )
          => /\ turn'[t].will_summarize
             /\ summarized_up_to_id' > turn[t].conv.summarized_up_to_id]_vars

\* C7 (the claim as stated): the history returned on the fast path, on the
\* cached-summary path and after a compression fits the history budget.
C7_HistoryFitsBudget ==
    [][\A t \in Turns :
          (turn[t].pc \in {"fast", "cached", "summarize"} /\ turn'[t].pc = "ollama")
          => count_tokens(turn'[t].history) <= BudgetOf(turn[t])]_vars

\* C8: a compression reads all stored rows and, with more than six of them,
\* summarizes rows 1..mid of the trimmable ones (mid the greater of 1 and half
\* their number), stores the result with the id of row mid, and returns the
\* summary message, rows mid+1.. of the trimmable ones and the last six rows,
\* in order, reporting compression.
C8_Compress ==
    [][\A t \in Turns :
          /\ (turn[t].pc = "generate" /\ Steps(t) /\ Len(messages) > 6)
             => turn'[t].pc = "summarize" /\ turn'[t].all_messages = messages
          /\ (turn[t].pc = "summarize" /\ Steps(t))
             => LET all == turn[t].all_messages
                    n == Len(all)
                    trim == n - 6
                    mid == IF trim \div 2 >= 1 THEN trim \div 2 ELSE 1
                IN  /\ trim >= 1
                    /\ turn'[t].pc = "ollama"
                    /\ \/ summary' \in {TIMEOUT_PLACEHOLDER, ERROR_PLACEHOLDER,
                                       NoSummary}
                       \/ summary'.of = [i \in 1..mid |-> all[i].id]
                    /\ summarized_up_to_id' = all[mid].id
                    /\ turn'[t].history =
                          <<[role |-> "system",
                             content |-> [(IF summary' = NoSummary
                                           THEN [summary' EXCEPT !.text = "None"]
                                           ELSE summary')
                                             EXCEPT !.prefixed = TRUE]]>>
                          \o Pairs(all, mid + 1, trim)
                          \o Pairs(all, trim + 1, n)
                    /\ turn'[t].will_summarize = TRUE]_vars

\* C8 witness: a compression of ten rows: two summarized, two kept from the
\* trimmable rows, six protected.
C8_Witness ==
    \E t \in Turns :
        /\ turn[t].pc = "ollama"
        /\ turn[t].will_summarize
        /\ Len(turn[t].history) = 9
        /\ summarized_up_to_id = 2

\* C9 (the claim as stated): with a summary stored, the rows a compression
\* sends to the summarizer all have ids above the stored summarized_up_to_id.
C9_NoResummarize ==
    [][\A t \in Turns :
          ( /\ turn[t].pc = "generate"
            /\ turn'[t].pc = "summarize"
            /\ summary # NoSummary )
          => LET all == turn'[t].all_messages
                 trim == Len(all) - 6
                 mid == IF trim \div 2 >= 1 THEN trim \div 2 ELSE 1
             IN  \A i \in 1..mid : all[i].id > summarized_up_to_id]_vars

\* C10: a row read over a positive budget with a summary sends the turn to the
\* cached-summary path; there, with recent the stored rows of id above the
\* summarized_up_to_id read, if count_tokens(recent) is at most 0.8 of the
\* budget the history is the summary message of the summary read followed by
\* recent, no compression is reported, no summarizer is called, and summary
\* and summarized_up_to_id stay as they are.
C10_CachedSummary ==
    [][\A t \in Turns :
          /\ ( /\ turn[t].pc = "stream_response"
               /\ Steps(t)
               /\ BudgetOf(turn'[t]) > 0
               /\ token_count > BudgetOf(turn'[t])
               /\ summary # NoSummary )
             => turn'[t].pc = "cached"
          /\ (turn[t].pc = "cached" /\ Steps(t))
             => LET recent == SelectSeq(messages,
                       LAMBDA m : m.id > turn[t].conv.summarized_up_to_id)
                IN  IF 10 * count_tokens(recent) <= 8 * BudgetOf(turn[t])
                    THEN /\ turn'[t].pc = "ollama"
                         /\ turn'[t].history =
                               <<[role |-> "system",
                                  content |-> [turn[t].conv.summary
                                                  EXCEPT !.prefixed = TRUE]]>>
                               \o Pairs(recent, 1, Len(recent))
                         /\ turn'[t].will_summarize = FALSE
                         /\ "summarize" \notin turn'[t].calls
                         /\ UNCHANGED <<summary, summarized_up_to_id>>
                    ELSE turn'[t].pc = "generate"]_vars

\* C10 witness: a cached summary reused in front of the recent rows.
C10_Witness ==
    \E t \in Turns :
        /\ turn[t].pc = "ollama"
        /\ ~turn[t].will_summarize
        /\ Len(turn[t].history) >= 2
        /\ turn[t].history[1].role = "system"
        /\ turn[t].history[1].content.prefixed

\* C11: a compression entered with at most six stored rows returns all of
\* them in order as (role, content), reports no compression, calls no
\* summarizer and writes neither summary nor summarized_up_to_id, whatever
\* the budget.
C11_NothingToTrim ==
    [][\A t \in Turns :
          (turn[t].pc = "generate" /\ Steps(t) /\ Len(messages) <= 6)
          => /\ turn'[t].pc = "ollama"
             /\ turn'[t].history = Pairs(messages, 1, Len(messages))
             /\ turn'[t].will_summarize = FALSE
             /\ "summarize" \notin turn'[t].calls
             /\ UNCHANGED <<summary, summarized_up_to_id>>]_vars

\* C11 witness: a turn has entered the compression of a conversation of at
\* most six rows that count more than its budget.
C11_Witness ==
    \E t \in Turns :
        /\ turn[t].pc = "generate"
        /\ Len(messages) \in 1..6
        /\ count_tokens(Pairs(messages, 1, Len(messages))) > BudgetOf(turn[t])

\* C12: an accepted message that leaves a budget of 0 or less gets an empty
\* history with no compression reported and no error; the conversation row
\* is not read, nothing is written, and the list assembled for the completion
\* is the system message followed by the current user message.
C12_NoBudget ==
    [][\A t \in Turns :
          ( /\ turn[t].pc = "stream_response"
            /\ Steps(t)
            /\ count_tokens_text(turn[t].message) <= 5500
            /\ BudgetOf(turn'[t]) <= 0 )
          => /\ turn'[t].pc = "ollama"
             /\ turn'[t].history = <<>>
             /\ turn'[t].will_summarize = FALSE
             /\ turn'[t].conv = NoRow
             /\ UNCHANGED storeVars
             /\ Len(assembled(turn'[t])) = 2
             /\ assembled(turn'[t])[1].role = "system"
             /\ assembled(turn'[t])[2] =
                   [role |-> "user", content |-> turn[t].message]]_vars

\* C12 witness: a turn past build_messages with no budget left for history,
\* on a conversation that has stored messages.
C12_Witness ==
    \E t \in Turns :
        /\ turn[t].pc = "ollama"
        /\ BudgetOf(turn[t]) <= 0
        /\ turn[t].history = <<>>
        /\ Len(messages) >= 8

\* C13 (the claim as stated): whatever the outcome of its one request,
\* summarize_messages returns a text, and for every outcome other than
\* success the text is one of the two fixed placeholders.
C13_SummarizeTotal ==
    [][\A t \in Turns :
          (turn[t].pc = "summarize" /\ Steps(t))
          => /\ Len(turn'[t].summarizer) = 1
             /\ summary' # NoSummary
             /\ turn'[t].summarizer[1] # "ok"
                   => summary' \in {TIMEOUT_PLACEHOLDER, ERROR_PLACEHOLDER}]_vars

\* C14: summary and summarized_up_to_id change only in the step of a
\* compression that caches its summary, and that step changes neither
\* token_count nor the stored messages; the request handler, retrieval and
\* the length check, the fast path, the cached-summary path, the read of a
\* compression and both statements of an append leave the two fields as they
\* are.
C14_OnlyCompressWrites ==
    [][/\ (summary' # summary \/ summarized_up_to_id' # summarized_up_to_id)
          => /\ \E t \in Turns :
                   turn[t].pc = "summarize" /\ turn'[t].pc = "ollama"
             /\ UNCHANGED <<token_count, message_count, messages>>
       /\ \A t \in Turns :
             (turn[t].pc \notin {"summarize"} /\ Steps(t))
             => UNCHANGED <<summary, summarized_up_to_id>>
       /\ \A t \in Turns :
             (turn[t].pc \in {"generate", "summarize"} /\ Steps(t))
             => UNCHANGED <<token_count, messages>>]_vars

\* C14 witness: a compression has cached a summary and another turn has
\* completed the append of its user message, the summary still stored.
C14_Witness ==
    \E t, u \in Turns :
        /\ turn[t].pc = "ollama"
        /\ turn[t].will_summarize
        /\ summary # NoSummary
        /\ turn[u].pc = "assistant_insert"
        /\ Len(messages) = message_count

\* C15 (the claim as stated): at most one compression of the conversation is
\* between its read of the messages and its write of the summary.
C15_OneCompress ==
    \A t, u \in Turns :
        (turn[t].pc = "summarize" /\ turn[u].pc = "summarize") => t = u

\* the owner the relational store records for a chunk, 0 if it has no row
OwnerOf(chunk_id) ==
    IF chunk_id \in DOMAIN chunks /\ chunks[chunk_id] \in DOMAIN documents
    THEN documents[chunks[chunk_id]].user_id
    ELSE 0

SearchCalls == {"embedding", "dense_search", "sparse_search"}

\* C16: every source a retrieve call returns is a stored chunk of a document
\* the calling user owns, whatever the scope lists and whatever the dense
\* collection and the sparse indexes hold.
C16_OwnedResults ==
    \A i \in 1..Len(retrieval.result) :
        OwnerOf(retrieval.result[i].chunk_id) = retrieval.user_id

\* C16 witness: a call returned sources although a search had given it a
\* chunk of another user.
C16_Witness ==
    /\ retrieval.pc = "done"
    /\ retrieval.result # <<>>
    /\ \E c \in Range(ChunkIds(retrieval.vector_hits))
                 \cup Range(ChunkIds(retrieval.bm25_hits)) :
          OwnerOf(c) \notin {0, retrieval.user_id}

\* C17: once the embedding call, the dense search or the sparse search of a
\* call has failed, the call has returned, and returned the empty list.
C17_AllOrNothing ==
    (retrieval.failed \cap SearchCalls # {})
        => (retrieval.pc = "done" /\ retrieval.result = <<>>)

\* C17 witness: the sparse search failed after the dense search had given
\* hits, and the call returned nothing.
C17_Witness ==
    /\ retrieval.pc = "done"
    /\ retrieval.failed = {"sparse_search"}
    /\ retrieval.dense = "done"
    /\ retrieval.vector_hits # <<>>
    /\ retrieval.result = <<>>

\* C18: in a scoped call no branch of the gather ends before the other has
\* started, the step that fuses is taken with both branches complete, and a
\* call with a failed branch has fused nothing.
C18_JoinBeforeFusion ==
    [][retrieval'.document_ids # <<>> =>
          /\ (retrieval.dense = "running" /\ retrieval'.dense # "running")
                => retrieval.sparse # "none"
          /\ (retrieval.sparse = "running" /\ retrieval'.sparse # "running")
                => retrieval.dense # "none"
          /\ ( /\ retrieval.pc = "join"
               /\ retrieval'.pc \in {"fetch", "done"}
               /\ retrieval'.failed = {} )
                => (retrieval.dense = "done" /\ retrieval.sparse = "done")
          /\ retrieval'.ranked_ids # <<>>
                => /\ retrieval'.dense = "done"
                   /\ retrieval'.sparse = "done"
                   /\ retrieval'.failed \cap SearchCalls = {}]_vars

\* C18 witness: a scoped call has fused the hits of both branches.
C18_Witness ==
    /\ retrieval.pc = "fetch"
    /\ retrieval.document_ids # <<>>
    /\ retrieval.vector_hits # <<>>
    /\ retrieval.bm25_hits # <<>>
    /\ Len(retrieval.ranked_ids) = 2

\* C19 (the claim as stated): a call that got its embedding and went on to
\* its results has run a dense and a sparse search, each asked for 3 * top_k
\* candidates, both restricted to the same documents.
C19_BothSearches ==
    (retrieval.pc = "fetch" \/ (retrieval.pc = "done" /\ retrieval.dense = "done"))
    => \E i, j \in 1..Len(retrieval.calls) :
          /\ retrieval.calls[i].op = "dense_search"
          /\ retrieval.calls[j].op = "sparse_search"
          /\ retrieval.calls[i].limit = 3 * retrieval.top_k
          /\ retrieval.calls[j].limit = 3 * retrieval.top_k
          /\ retrieval.calls[i].docs = retrieval.calls[j].docs

\* C20: a call with nothing attached and search_all false returns the empty
\* list at once: no provider, no store, no index has been called and nothing
\* has raised.
C20_EmptyScope ==
    [][( /\ retrieval.pc \in {"idle", "done"}
         /\ retrieval' # retrieval
         /\ retrieval'.document_ids = <<>>
         /\ ~retrieval'.search_all )
       => /\ retrieval'.pc = "done"
          /\ retrieval'.result = <<>>
          /\ retrieval'.calls = <<>>
          /\ retrieval'.failed = {}]_vars

\* C20 witness: such a call has returned over stores that hold the user's
\* documents.
C20_Witness ==
    /\ retrieval.pc = "done"
    /\ retrieval.user_id = 1
    /\ retrieval.document_ids = <<>>
    /\ ~retrieval.search_all
    /\ retrieval.calls = <<>>
    /\ points # <<>>

\* C21: the list a scoped call returns after fusion has at most top_k
\* entries, no chunk id twice, and is the first top_k fused ids that have a
\* row of a document of the user, in fused order: the others are left out,
\* nothing raises for them and the rest keep their order.
C21_ResolvedInOrder ==
    ( /\ retrieval.pc = "done"
      /\ retrieval.document_ids # <<>>
      /\ retrieval.dense = "done"
      /\ retrieval.sparse = "done"
      /\ "chunks_read" \notin retrieval.failed )
    => LET fused == reciprocal_rank_fusion(retrieval.vector_hits,
                                           retrieval.bm25_hits)
           first == [i \in 1..(IF Len(fused) < retrieval.top_k
                               THEN Len(fused) ELSE retrieval.top_k) |->
                        fused[i]]
           ids == ChunkIds(retrieval.result)
       IN  /\ Len(ids) <= retrieval.top_k
           /\ \A i, j \in 1..Len(ids) : ids[i] = ids[j] => i = j
           /\ ids = SelectSeq(first,
                              LAMBDA c : OwnerOf(c) = retrieval.user_id)
           /\ retrieval.failed = {}

\* C21 witness: a call returned two sources in fused order, having left out
\* the id fused between them, and with more fused ids than top_k.
C21_Witness ==
    /\ retrieval.pc = "done"
    /\ retrieval.document_ids # <<>>
    /\ retrieval.failed = {}
    /\ Len(retrieval.ranked_ids) = 3
    /\ Len(reciprocal_rank_fusion(retrieval.vector_hits,
                                  retrieval.bm25_hits)) > 3
    /\ ChunkIds(retrieval.result)
          = <<retrieval.ranked_ids[1], retrieval.ranked_ids[3]>>

\* the 0-based ranks an id has in a list, and 1 / (60 + rank + 1) summed over
\* them, in units of 1 / 15249024 (15249024 = 61 * 62 * 63 * 64)
RanksIn(ids, id) == {i - 1 : i \in {j \in 1..Len(ids) : ids[j] = id}}
Reciprocal(ids, id) ==
    IF RanksIn(ids, id) = {} THEN 0
    ELSE 15249024 \div (61 + CHOOSE r \in RanksIn(ids, id) : TRUE)
\* the position of an id in a list
PositionIn(ids, id) == CHOOSE i \in 1..Len(ids) : ids[i] = id

\* C23: the fusion returns every id of either list once and no other, in
\* non-increasing order of the sum of 1 / (60 + rank + 1) over the lists the
\* id is in, and an id in both lists comes before an id that is in one list
\* only, at a rank the first has too.
C23_FusedByScore ==
    (call.op = "reciprocal_rank_fusion" /\ call.returned)
    => LET v == ChunkIds(call.input.vector_hits)
           b == ChunkIds(call.input.bm25_hits)
           out == call.out
           Score(id) == Reciprocal(v, id) + Reciprocal(b, id)
       IN  /\ Range(out) = Range(v) \cup Range(b)
           /\ \A i, j \in 1..Len(out) : out[i] = out[j] => i = j
           /\ \A i \in 1..(Len(out) - 1) : Score(out[i]) >= Score(out[i + 1])
           /\ \A x \in Range(v) \cap Range(b), y \in Range(out) :
                 ( /\ ~(y \in Range(v) /\ y \in Range(b))
                   /\ RanksIn(v, y) \cup RanksIn(b, y)
                         \subseteq RanksIn(v, x) \cup RanksIn(b, x) )
                 => PositionIn(out, x) < PositionIn(out, y)

\* C23 witness: the fusion returned four ids, first the id that is third in
\* the dense list and also in the sparse list, ahead of one that is third in
\* the sparse list only.
C23_Witness ==
    /\ call.op = "reciprocal_rank_fusion"
    /\ call.returned
    /\ Len(call.out) = 4
    /\ LET v == ChunkIds(call.input.vector_hits)
           b == ChunkIds(call.input.bm25_hits)
       IN  /\ Len(v) = 3
           /\ Len(b) = 3
           /\ call.out[1] = v[3]
           /\ v[3] \in Range(b)
           /\ b[3] \notin Range(v)

\* the fusion has returned for the dense list [A, B, C] and the sparse list
\* [B, A, D]
FusedExample ==
    /\ call.op = "reciprocal_rank_fusion"
    /\ call.returned
    /\ ChunkIds(call.input.vector_hits) = <<"A", "B", "C">>
    /\ ChunkIds(call.input.bm25_hits) = <<"B", "A", "D">>

\* two ids of equal combined score come out in the order they are first met
\* going through the dense list and then the sparse list
StableTies ==
    (call.op = "reciprocal_rank_fusion" /\ call.returned)
    => LET v == ChunkIds(call.input.vector_hits)
           b == ChunkIds(call.input.bm25_hits)
           out == call.out
           Score(id) == Reciprocal(v, id) + Reciprocal(b, id)
       IN  \A i, j \in 1..Len(out) :
              (i < j /\ Score(out[i]) = Score(out[j]))
              => PositionIn(v \o b, out[i]) < PositionIn(v \o b, out[j])

\* C24 (the claim as stated): ties come out in the order of first encounter,
\* and for the dense list [A, B, C] and the sparse list [B, A, D] the fusion
\* returns [A, B, D, C].
C24_StableTies_DBeforeC ==
    /\ StableTies
    /\ FusedExample => call.out = <<"A", "B", "D", "C">>

\* C24 (amended): ties come out in the order of first encounter, and for the
\* dense list [A, B, C] and the sparse list [B, A, D] the fusion returns
\* [A, B, C, D]: C and D tie at 1/63 and C is met first.
C24_StableTies ==
    /\ StableTies
    /\ FusedExample => call.out = <<"A", "B", "C", "D">>

\* C24 witness: the fusion has returned for the two lists of the example.
C24_Witness == FusedExample /\ Len(call.out) = 4

\* C26: a sparse search returns only chunks listed in the index of a
\* requested document, at most as many as asked for, each with a score above
\* 0, in non-increasing order of score; a requested document without an
\* index adds nothing and the search still returns.
C26_SparseScoped ==
    (call.op = "_bm_25_search" /\ call.returned)
    => LET ix == call.input.indexes
           ids == call.input.document_ids
           out == call.out
       IN  /\ \A i \in 1..Len(out) :
                 \E d \in Range(ids) \cap DOMAIN ix :
                    \E j \in 1..Len(ix[d]) : ix[d][j] = out[i]
           /\ Len(out) <= call.input.top_k
           /\ \A i \in 1..Len(out) : out[i].score > 0
           /\ \A i \in 1..(Len(out) - 1) : out[i].score >= out[i + 1].score
           /\ (Range(ids) \cap DOMAIN ix = {}) => out = <<>>

\* C26 witness: a search over a document with an index of three chunks and a
\* document without an index returned the two chunks asked for.
C26_Witness ==
    /\ call.op = "_bm_25_search"
    /\ call.returned
    /\ call.input.document_ids = <<"d1", "d3">>
    /\ "d3" \notin DOMAIN call.input.indexes
    /\ Len(call.input.indexes["d1"]) = 3
    /\ call.input.top_k = 2
    /\ Len(call.out) = 2

\* C27: the disambiguation returns a document only if it is in the scope
\* given, owned by the user, complete, shares a word with the query and has a
\* ratio above 80; of these it returns the one of the highest ratio, the
\* first met among equals; it returns none if there is none, so none if no
\* filename shares a word with the query.
C27_Disambiguation ==
    (call.op = "find_referenced_document" /\ call.returned)
    => LET docs == call.input.documents
           Candidates ==
              {d \in Range(call.input.document_ids) :
                  /\ docs[d].user_id = call.input.user_id
                  /\ docs[d].status = "complete"
                  /\ docs[d].shares_word
                  /\ docs[d].ratio > 80}
       IN  /\ call.out # "" =>
                 /\ call.out \in Candidates
                 /\ \A e \in Candidates :
                       \/ docs[e].ratio < docs[call.out].ratio
                       \/ /\ docs[e].ratio = docs[call.out].ratio
                          /\ PositionIn(DocumentOrder, call.out)
                                <= PositionIn(DocumentOrder, e)
           /\ call.out = "" <=> Candidates = {}

\* C27 witness: of two documents of the scope that share a word with the
\* query and have the same ratio, the first was returned.
C27_Witness ==
    /\ call.op = "find_referenced_document"
    /\ call.returned
    /\ call.input.user_id = 1
    /\ call.input.document_ids = <<"d1", "d2">>
    /\ call.input.documents["d1"].ratio = 90
    /\ call.input.documents["d2"].ratio = 90
    /\ call.input.documents["d2"].shares_word
    /\ call.input.documents["d2"].status = "complete"
    /\ call.out = "d1"

\* the length of the header and of the snippets of the first n sources
RECURSIVE PrefixLen(_, _)
PrefixLen(sources, n) ==
    IF n = 0 THEN HEADER_LEN
    ELSE PrefixLen(sources, n - 1) + SnippetLen(n, sources[n])

\* C29: the string returned holds the snippets of the first m sources,
\* numbered 1..m in the order given, where m is the longest prefix that
\* fits: the header and these snippets are within 4 characters per token of
\* the budget and the next snippet would go over; it is the empty string,
\* without the header, exactly if m = 0, as for an empty list of sources.
C29_LongestPrefix ==
    (call.op = "format_rag_context" /\ call.returned)
    => LET sources == call.input.sources
           char_budget == 4 * call.input.token_budget
           m == Len(call.out.snippets)
       IN  /\ m <= Len(sources)
           /\ \A i \in 1..m :
                 call.out.snippets[i] =
                    [n |-> i, filename |-> sources[i].filename,
                     text |-> sources[i].text]
           /\ m > 0 => PrefixLen(sources, m) <= char_budget
           /\ m < Len(sources) => PrefixLen(sources, m + 1) > char_budget
           /\ call.out.header <=> m > 0
           /\ sources = <<>> => call.out = EmptyString

\* C29 witness: of a short, a medium and a short source the first alone was
\* taken: the second went over the budget and the third, which would have
\* fitted, was not looked at.
C29_Witness ==
    /\ call.op = "format_rag_context"
    /\ call.returned
    /\ Len(call.input.sources) = 3
    /\ call.input.sources[2].text = "medium text"
    /\ call.input.sources[3].text = "short text"
    /\ Len(call.out.snippets) = 1
    /\ StringLen(call.out) + SnippetLen(2, call.input.sources[3])
          <= 4 * call.input.token_budget

\* C30: for every list of sources and every token budget of 0 or more, the
\* string returned, header included, is at most 4 * token_budget characters
\* long.
C30_WithinBudget ==
    (call.op = "format_rag_context" /\ call.returned)
    => StringLen(call.out) <= 4 * call.input.token_budget

\* C30 witness: a string with a snippet was returned that takes the budget
\* to the last character.
C30_Witness ==
    /\ call.op = "format_rag_context"
    /\ call.returned
    /\ call.out.header
    /\ StringLen(call.out) = 4 * call.input.token_budget

\* the documents of the scope of the call that the user owns, that are
\* complete, share a word with the query and have a ratio above 80
Referenced ==
    {d \in Range(retrieval.document_ids) :
        /\ documents[d].user_id = retrieval.user_id
        /\ documents[d].status = "complete"
        /\ documents[d].shares_word
        /\ documents[d].ratio > 80}

\* C28: in a scoped call, if the disambiguation finds a document, the dense
\* search and the sparse search are both restricted to that document alone,
\* and all their hits are of it; if it finds none, both are restricted to
\* the whole scope.
C28_Narrowing ==
    \A i \in 1..Len(retrieval.calls) :
       retrieval.calls[i].op \in {"dense_search", "sparse_search"}
       /\ retrieval.document_ids # <<>>
       => /\ Referenced = {} =>
                retrieval.calls[i].docs = retrieval.document_ids
          /\ Referenced # {} =>
                /\ Len(retrieval.calls[i].docs) = 1
                /\ retrieval.calls[i].docs[1] \in Referenced
                /\ \A e \in Referenced :
                      documents[e].ratio
                         <= documents[retrieval.calls[i].docs[1]].ratio
                /\ \A j \in 1..Len(retrieval.vector_hits) :
                      retrieval.vector_hits[j].document_id
                         = retrieval.calls[i].docs[1]
                /\ \A j \in 1..Len(retrieval.bm25_hits) :
                      \E n \in 1..Len(bm25_indexes[retrieval.calls[i].docs[1]]) :
                         bm25_indexes[retrieval.calls[i].docs[1]][n]
                            = retrieval.bm25_hits[j]

\* C28 witness: a call over two documents, one of them named by the query,
\* has got dense and sparse hits, all of the named document.
C28_Witness ==
    /\ Len(retrieval.document_ids) = 2
    /\ Referenced # {}
    /\ retrieval.search_ids = <<"d2">>
    /\ retrieval.vector_hits # <<>>
    /\ retrieval.bm25_hits # <<>>
    /\ \E d \in Range(retrieval.document_ids) :
          d # "d2" /\ d \in DOMAIN bm25_indexes /\ bm25_indexes[d] # <<>>

\* C22 (the claim as stated): every source a retrieve call returns is of a
\* document that is 'complete'.  (A document never leaves 'complete', so one
\* that is 'processing' or 'error' was not complete when the call was made.)
C22_OnlyComplete ==
    \A i \in 1..Len(retrieval.result) :
        documents[retrieval.result[i].document_id].status = "complete"

\* C25 (the claim as stated): while no build for a document is between its
\* write to the store and its return, an index in the cache equals the index
\* the store holds for the document.
C25_CacheIsPersisted ==
    ingest.pc # "invalidate"
    => \A d \in DOMAIN bm25_cache :
          bm25_cache[d] = get_bm25_index(bm25_indexes, d)

\* C31: the list build_messages returns for an accepted message is one system
\* message (the base prompt, with the RAG block when there is one), then the
\* history of the history manager in its order, then the current message as
\* a user message, unchanged; total_tokens is the sum of the token counts of
\* the contents of that list plus 4 for each of its messages.
C31_AssembledList ==
    \A t \in Turns :
        turn[t].pc = "ollama"
        => LET out == assembled(turn[t])
               n == Len(out)
           IN  /\ n = Len(turn[t].history) + 2
               /\ out[1] = [role |-> "system",
                            content |-> IF turn[t].rag_tokens = 0
                                        THEN BASE_PROMPT ELSE RAG_PROMPT]
               /\ \A i \in 1..Len(turn[t].history) :
                     out[i + 1] = turn[t].history[i]
               /\ out[n] = [role |-> "user", content |-> turn[t].message]
               /\ total_tokens(turn[t]) = SumTokens(out) + 4 * n

\* C31 witness: a list assembled with a RAG block around a compressed
\* history, which itself starts with a system message.
C31_Witness ==
    \E t \in Turns :
        /\ turn[t].pc = "ollama"
        /\ turn[t].rag_tokens > 0
        /\ turn[t].will_summarize
        /\ Len(assembled(turn[t])) = 11
        /\ assembled(turn[t])[2].role = "system"
        /\ total_tokens(turn[t]) > 44

\* C32 (the claim as stated): a retrieve call in which a read of the
\* relational store has failed does not return a list: the failure is raised
\* to the caller.
C32_StoreFailureRaises ==
    (retrieval.failed \cap {"documents_read", "chunks_read"} # {})
        => retrieval.pc # "done"

\* C33 (the claim as stated): for every accepted message, with or without a
\* RAG block, the history budget build_messages works with is at least 500.
C33_FloorLeavesRoom ==
    \A t \in Turns :
        ( /\ turn[t].pc \in {"fast", "cached", "generate", "summarize", "ollama"}
          /\ count_tokens_text(turn[t].message) <= 5500 )
        => history_budget(t) >= 500

\* C34: a build_messages call goes through the fast path, the cached-summary
\* path and the compression at most once each and then returns: every step
\* of it moves the call forward in the order row read, fast or cached path,
\* compression read, summarizer and write, return.  The call makes at most
\* one summarizer call and writes summary and summarized_up_to_id at most
\* once, in the one step of its compression, and it reports compression
\* exactly when it made that call and that write.
C34_OnePass ==
    [][\A t \in Turns :
          LET Rank(pc) == CASE pc = "stream_response" -> 1
                            [] pc \in {"fast", "cached"} -> 2
                            [] pc = "generate" -> 3
                            [] pc = "summarize" -> 4
                            [] OTHER -> 5
              wrote == summary' # summary
                          \/ summarized_up_to_id' # summarized_up_to_id
          IN  (Rank(turn[t].pc) < 5 /\ Steps(t))
              => /\ Rank(turn'[t].pc) > Rank(turn[t].pc)
                 /\ Len(turn[t].summarizer) = 0
                 /\ Len(turn'[t].summarizer) <= 1
                 /\ wrote => Len(turn'[t].summarizer) = 1
                 /\ turn'[t].pc = "ollama"
                       => (turn'[t].will_summarize
                             <=> /\ turn[t].pc = "summarize"
                                 /\ Len(turn'[t].summarizer) = 1
                                 /\ summarized_up_to_id'
                                       = LastSummarizedId(turn[t].all_messages))]_vars

\* C34 witness: a call has returned from a compression it reports, and
\* another call, which found a cached summary and went from the
\* cached-summary path into a compression, is about to call the summarizer.
C34_Witness ==
    \E t, u \in Turns :
        /\ turn[t].pc = "ollama"
        /\ turn[t].will_summarize
        /\ Len(turn[t].summarizer) = 1
        /\ turn[u].pc = "summarize"
        /\ turn[u].conv.summary # NoSummary

\* C35: a compression splits the n rows it read into the summarized span,
\* the remaining second half and the protected tail: three spans that follow
\* each other, share no row and together are the n rows in their order.  The
\* protected tail has the lesser of n and 6 rows; with more than six rows the
\* summarized span has the greater of 1 and half (rounded down) the number of
\* trimmable rows, so a single trimmable row is summarized whole.
C35_ThreeSpans ==
    (call.op = "_generate_and_cache_summary" /\ call.returned)
    => LET all == call.input.all_messages
           n == Len(all)
           o == call.out
           Ids(rows) == {rows[i].id : i \in 1..Len(rows)}
       IN  /\ o.to_summarize \o o.remaining \o o.protected = all
           /\ o.to_summarize \o o.remaining = o.trimmable
           /\ Ids(o.to_summarize) \cap Ids(o.remaining) = {}
           /\ Ids(o.trimmable) \cap Ids(o.protected) = {}
           /\ Len(o.protected) = IF n < 6 THEN n ELSE 6
           /\ n > 6 => Len(o.to_summarize)
                          = IF (n - 6) \div 2 >= 1 THEN (n - 6) \div 2 ELSE 1

\* C35 witness: seven rows split: the one trimmable row is the summarized
\* span, nothing remains of the trimmable rows, six rows are protected.
C35_Witness ==
    /\ call.op = "_generate_and_cache_summary"
    /\ call.returned
    /\ Len(call.input.all_messages) = 7
    /\ Len(call.out.to_summarize) = 1
    /\ call.out.remaining = <<>>
    /\ Len(call.out.protected) = 6

\* C36: the stored summary and summarized_up_to_id agree in every state, also
\* after compressions of two turns that overlapped have written in either
\* order: summarized_up_to_id is the id of a stored row once a summary is
\* stored, and a summary the summarizer produced was made from exactly the
\* stored rows of id up to summarized_up_to_id.  The same holds for the pair
\* a turn has read, so the cached-summary path returns the summary of the
\* rows up to that id followed by every stored row above it: no stored row is
\* in both, none is in neither.
C36_PairConsistent ==
    [][LET Covers(s, k, rows) ==
               /\ k \in 0..Len(rows)
               /\ s # NoSummary => k >= 1
               /\ s.of # <<>> => s.of = [i \in 1..k |-> rows[i].id]
               /\ \A i \in 1..Len(rows) : (rows[i].id <= k) <=> (i <= k)
       IN  /\ Covers(summary, summarized_up_to_id, messages)
           /\ Covers(summary', summarized_up_to_id', messages')
           /\ \A t \in Turns :
                 (turn[t].pc = "cached" /\ turn'[t].pc = "ollama")
                 => LET k == turn[t].conv.summarized_up_to_id
                        h == turn'[t].history
                    IN  /\ Covers(turn[t].conv.summary, k, messages)
                        /\ k >= 1
                        /\ h[1].role = "system"
                        /\ h[1].content.text = turn[t].conv.summary.text
                        /\ h[1].content.of = turn[t].conv.summary.of
                        /\ Len(h) = 1 + Len(messages) - k
                        /\ \A i \in (k + 1)..Len(messages) :
                              h[1 + i - k] = [role |-> messages[i].role,
                                              content |-> messages[i].content]]_vars

\* C36 witness: the compressions of two turns have overlapped (each read
\* the row before the other had stored a summary) and both have written,
\* one a summary and the other a placeholder; the stored pair is that of the
\* last write.
C36_Witness ==
    /\ turn[1].pc = "ollama"
    /\ turn[2].pc = "ollama"
    /\ turn[1].will_summarize
    /\ turn[2].will_summarize
    /\ turn[1].summarizer # turn[2].summarizer
    /\ Len(messages) = 8
    /\ summary.of = <<1>>
    /\ summarized_up_to_id = 1

\* C37: when the request of the summarizer times out or fails during a
\* compression, the step still completes: it stores the placeholder text as
\* the summary, with summarized_up_to_id the id of the last row of the span
\* it tried to summarize, returns the placeholder summary message followed
\* by the second half of the trimmable rows and the protected rows, and
\* reports compression.  A later call on the cached-summary path that read
\* the placeholder returns it, in front of the rows above the id it read.
C37_PlaceholderCached ==
    [][\A t \in Turns :
          LET timed_out == [text |-> "Earlier conversation content unavailable (summarization timed out).",
                            of |-> <<>>, prefixed |-> FALSE]
              failed == [text |-> "Earlier conversation content unavailable.",
                         of |-> <<>>, prefixed |-> FALSE]
          IN
          /\ ( /\ turn[t].pc = "summarize"
               /\ Steps(t)
               /\ turn'[t].summarizer \in {<<"timeout">>, <<"error">>} )
             => LET all == turn[t].all_messages
                    n == Len(all)
                    trim == n - 6
                    mid == IF trim \div 2 >= 1 THEN trim \div 2 ELSE 1
                    placeholder == IF turn'[t].summarizer = <<"timeout">>
                                   THEN timed_out ELSE failed
                IN  /\ turn'[t].pc = "ollama"
                    /\ summary' = placeholder
                    /\ summarized_up_to_id' = all[mid].id
                    /\ turn'[t].history =
                          <<[role |-> "system",
                             content |-> [placeholder EXCEPT !.prefixed = TRUE]]>>
                          \o Pairs(all, mid + 1, trim)
                          \o Pairs(all, trim + 1, n)
                    /\ turn'[t].will_summarize = TRUE
          /\ ( /\ turn[t].pc = "cached"
               /\ turn'[t].pc = "ollama"
               /\ turn[t].conv.summary \in {timed_out, failed} )
             => /\ turn'[t].history[1] =
                      [role |-> "system",
                       content |-> [turn[t].conv.summary EXCEPT !.prefixed = TRUE]]
                /\ Len(turn'[t].history) =
                      1 + Cardinality({i \in 1..Len(messages) :
                            messages[i].id > turn[t].conv.summarized_up_to_id})
                /\ turn'[t].will_summarize = FALSE]_vars

\* C37 witness: a call on the cached-summary path has returned the timeout
\* placeholder, stored by an earlier compression, in front of rows 2 to 8.
C37_Witness ==
    \E t \in Turns :
        /\ turn[t].pc = "ollama"
        /\ ~turn[t].will_summarize
        /\ Len(turn[t].history) = 8
        /\ turn[t].history[1].content.prefixed
        /\ turn[t].history[1].content.text = TIMEOUT_PLACEHOLDER.text
        /\ summary = TIMEOUT_PLACEHOLDER
        /\ summarized_up_to_id = 1

\* C38 (the claim as stated): the user message and the assistant message of
\* a turn are stored next to each other: once a turn has inserted its user
\* message, the next row inserted is its assistant message, not a row of
\* the other turn.
C38_TurnRowsAdjacent ==
    [][\A t \in Turns :
          (turn[t].pc \in {"user_update", "assistant_insert"}
              /\ messages' # messages)
          => turn'[t].pc = "assistant_update"]_vars

\* C39: the status of a document only goes from 'processing' to 'complete'
\* or to 'error', and the write of the status is the last step of the
\* pipeline.  Whenever a document is 'complete' with chunk_count n, its
\* stored chunks are the n chunks of index 0 to n - 1, each has a vector in
\* the dense collection, and the persisted sparse index of the document
\* lists exactly those n chunk ids, in order, each with its entry.
C39_CompleteIsWhole ==
    [][/\ \A d \in DOMAIN documents \cap DOMAIN documents' :
             documents'[d].status # documents[d].status
             => /\ documents[d].status = "processing"
                /\ documents'[d].status \in {"complete", "error"}
                /\ ingest.document_id = d
                /\ ingest'.pc = "done"
       /\ \A d \in DOMAIN documents' \ DOMAIN documents :
             documents'[d].status = "processing"
       /\ ingest.pc = "done" => ingest' = ingest
       /\ \A d \in DOMAIN documents' :
             documents'[d].status = "complete"
             => LET n == documents'[d].chunk_count
                    index == bm25_indexes'[d]
                IN  /\ n >= 1
                    /\ {c \in DOMAIN chunks' : chunks'[c] = d}
                          = {ChunkId(d, i) : i \in 0..(n - 1)}
                    /\ \A i \in 0..(n - 1) :
                          \E j \in 1..Len(points') :
                             /\ points'[j].document_id = d
                             /\ points'[j].chunk_id = ChunkId(d, i)
                    /\ d \in DOMAIN bm25_indexes'
                    /\ Len(index) = n
                    /\ \A i \in 1..n : index[i].chunk_id = ChunkId(d, i - 1)]_vars

\* C39 witness: the upload is complete with its two chunks, after a delete
\* request that failed on its statement and a progress read answered from
\* the row.
C39_Witness ==
    /\ "d1" \in DOMAIN documents
    /\ documents["d1"].status = "complete"
    /\ documents["d1"].chunk_count = 2
    /\ ingest.pc = "done"
    /\ deletion.pc = "failed"
    /\ progress_response.pc = "done"
    /\ progress_response.body[1].stage = "complete"

\* C40: _progress holds an entry only for the document being processed and
\* only while its pipeline runs.  On every way out of the pipeline the entry
\* is gone before the step that writes the final status and stays gone
\* after it, so none remains once the pipeline has ended; a progress read
\* answers from an entry only while the pipeline runs.  All of this also
\* while a delete of the document and a progress read go on.
C40_ProgressWhileRunning ==
    [][LET d == ingest'.document_id
           Running == {"extract", "embed", "build_index", "invalidate",
                       "complete", "failed"}
       IN  /\ \A e \in DOMAIN progress' :
                 e = d /\ ingest'.pc \in Running
           /\ (ingest.pc \in {"complete", "failed"} /\ ingest' # ingest)
                 => (d \notin DOMAIN progress /\ d \notin DOMAIN progress')
           /\ ingest'.pc = "done" => d \notin DOMAIN progress'
           /\ ( /\ progress_response' # progress_response
                /\ progress_response'.pc = "done"
                /\ progress_response'.body[1].active )
                 => ingest.pc \in Running]_vars

\* C40 witness: the pipeline is on its way out through the exception
\* handler, the entry popped and the status not yet written, after a delete
\* of the document has completed and a progress read has found the entry
\* during the embedding.
C40_Witness ==
    /\ ingest.pc = "failed"
    /\ "d1" \notin DOMAIN progress
    /\ "d1" \notin DOMAIN documents
    /\ deletion.pc = "done"
    /\ progress_response.pc = "done"
    /\ progress_response.body[1].active
    /\ progress_response.body[1].stage = "embedding"
    /\ progress_response.body[1].done = 1

====
